---- MODULE Spec2Model ----
(***************************************************************************)
(* The proof-of-work hash chain Hash9 of hashblock.h (both the 5-step and  *)
(* the 24-step definition), the zero-state globals z_*, the warm-up macro  *)
(* fillz and the clone macros Z*.                                          *)
(*                                                                         *)
(* Bytes are naturals 0..255.  A 32-bit word is kept as two 16-bit halves  *)
(* (high half first), so that no value leaves the range of the checker's   *)
(* integers.  A primitive context is a record                              *)
(*     [s |-> state halves, count |-> absorbed bytes, par |-> parameters]. *)
(***************************************************************************)
EXTENDS Integers, Sequences, FiniteSets, TLC

\* ------------------------------------------------------------ bounds
\* longest message handed to Hash9, in elements
MaxLen == 2

\* ------------------------------------------------------------ constants
\* bytes absorbed by every step after the first (the literal 64)
WideLen == 64
\* bytes kept by trim256 (uint256 is 256 bits)
TrimLen == 32
\* sizeof(pbegin[0]) for the byte ranges Hash9 is instantiated with
SizeofElem == 1
\* 2^16, the modulus of one half word
Half == 256 * 256

Variants == {"short", "long"}

Bytes == 0..255

\* The message of n bytes: the bytes count upwards from 1.
Message(n) == [ i \in 1..n |-> i % 256 ]

Messages == { Message(n) : n \in 0..MaxLen }

\* ------------------------------------------------------------ primitives
\* The hash functions of the sph library, in the order of the #include lines.
Prims ==
  << "blake512", "bmw512", "cubehash512", "echo512", "fugue512",
     "groestl512", "hamsi512", "haval256_5", "jh512", "keccak512",
     "luffa512", "panama", "ripemd160", "sha512", "shabal512",
     "shavite512", "simd512", "skein512", "tiger", "whirlpool",
     "cubehash384", "whirlpool1", "tiger2", "groestl384" >>

PrimSet == { Prims[i] : i \in 1..Len(Prims) }

PrimIndexOf == [ P \in PrimSet |-> CHOOSE i \in 1..Len(Prims) : Prims[i] = P ]

\* The 15 members of the HAVAL family: output length in bits, and passes.
HavalBits == { 128, 160, 192, 224, 256 }

HavalPasses == { 3, 4, 5 }

HavalVariants == HavalBits \X HavalPasses

\* The tokens xxx ## _ ## y of the API macro, after "sph_".
HavalName(xxx, y) == "haval" \o ToString(xxx) \o "_" \o ToString(y)

HavalNames == { HavalName(v[1], v[2]) : v \in HavalVariants }

HavalOf ==
  [ n \in HavalNames |->
      CHOOSE v \in HavalVariants : HavalName(v[1], v[2]) = n ]

IsHaval(P) == P \in HavalNames

PrimIndex(P) == PrimIndexOf[IF IsHaval(P) THEN "haval256_5" ELSE P]

\* DigestSize with a 1024-bit digest for Keccak and Skein.
DigestSizeWide(P) ==
  CASE P \in {"panama", "haval256_5"} -> 32
    [] P \in {"keccak512", "skein512"} -> 128
    [] P \in {"tiger", "tiger2"} -> 24
    [] P = "ripemd160" -> 20
    [] IsHaval(P) -> HavalOf[P][1] \div 8
    [] P \in {"cubehash384", "groestl384"} -> 48
    [] OTHER -> 64

\* Digest size in bytes of each primitive.
DigestSize(P) ==
  CASE P \in {"panama", "haval256_5"} -> 32
    [] P \in {"tiger", "tiger2"} -> 24
    [] P = "ripemd160" -> 20
    [] IsHaval(P) -> HavalOf[P][1] \div 8
    [] P \in {"cubehash384", "groestl384"} -> 48
    [] OTHER -> 64

\* haval_init with its two arguments exchanged.
haval_initSwapped(olen, passes) ==
  [ s |-> << 9279, 27272,   34211, 2259,   4889, 35374,   880, 29508,
             41993, 14370,  10655, 12752,  2094, 64152,   60494, 27785 >>,
    count |-> 0,
    par |-> << passes, olen >> ]

\* haval_init: the eight state words, olen, passes, and a zero byte count.
haval_init(olen, passes) ==
  [ s |-> << 9279, 27272,   34211, 2259,   4889, 35374,   880, 29508,
             41993, 14370,  10655, 12752,  2094, 64152,   60494, 27785 >>,
    count |-> 0,
    par |-> << olen, passes >> ]

\* API(256, 5): sph_haval256_5_init(cc) is haval_init(cc, 256 >> 5, 5).
sph_haval256_5_init == haval_init(256 \div 32, 5)

\* API(xxx, y): sph_havalxxx_y_init(cc) is haval_init(cc, xxx >> 5, y).
API_init(xxx, y) == haval_init(xxx \div 32, y)

\* Number of state halves of a context of primitive P.
StateLen(P) == IF IsHaval(P) THEN 16 ELSE 4

\* The fixed initial constants of the primitives other than HAVAL.
InitialState(P) ==
  [ i \in 1..StateLen(P) |-> (4099 * PrimIndex(P) + 257 * i) % Half ]

\* init(ctx): the context of P after P's init, whatever it held before.
PrimInit(P) ==
  CASE P = "haval256_5" -> sph_haval256_5_init
    [] IsHaval(P) /\ P # "haval256_5" -> API_init(HavalOf[P][1], HavalOf[P][2])
    [] OTHER -> [ s |-> InitialState(P), count |-> 0, par |-> << >> ]

\* A context of P all of whose bytes are zero (static storage before any
\* init has run on it).
ZeroCtx(P) ==
  [ s |-> [ i \in 1..StateLen(P) |-> 0 ],
    count |-> 0,
    par |-> IF IsHaval(P) THEN << 0, 0 >> ELSE << >> ]

\* An automatic context that no init has written yet: its value is
\* indeterminate.
Uninit == [ s |-> << >>, count |-> -1, par |-> << >> ]

\* What reading an indeterminate context of P may yield: j picks one of the
\* possible leftovers.
StaleCtx(P, j) ==
  IF j = 0 THEN ZeroCtx(P)
  ELSE [ s |-> [ i \in 1..StateLen(P) |-> (42405 + i * j) % Half ],
         count |-> 2 + j,
         par |-> IF IsHaval(P) THEN << 8, 5 >> ELSE << >> ]

Stale == 0..1

\* The value read from context c of P.
ReadCtx(P, c, j) == IF c = Uninit THEN StaleCtx(P, j) ELSE c

\* Compression of one byte b into the state halves s of a context that has
\* absorbed n bytes, with the multiplier k of the primitive: half i is
\* rewritten, the halves taking turns.
CompressAt(k, s, n, b, i) ==
  [ s EXCEPT ![i] = (s[i] * k + s[(i % Len(s)) + 1] + b + n) % Half ]

Compress(k, s, n, b) == CompressAt(k, s, n, b, (n % Len(s)) + 1)

\* The multiplier of the compression of P; the three HAVAL cores (3, 4 and
\* 5 passes) differ, and the core is chosen by the passes of the context.
Multiplier(P, c) ==
  IF IsHaval(P) THEN 2 * (PrimIndex(P) + c.par[2]) - 7
  ELSE 2 * PrimIndex(P) + 3

AbsorbByte(P, c, b) ==
  [ c EXCEPT !.s = Compress(Multiplier(P, c), c.s, c.count, b),
             !.count = c.count + 1 ]

\* The bytes data[lo..hi] absorbed one after the other, for lo <= hi: the
\* first half of the range, then the second half on the context c1 that the
\* first half leaves.
RECURSIVE Absorb(_, _, _, _, _)
Absorb(P, c, data, lo, hi) ==
  IF lo = hi THEN AbsorbByte(P, c, data[lo])
  ELSE CHOOSE r \in { Absorb(P, c1, data, ((lo + hi) \div 2) + 1, hi) :
                        c1 \in { Absorb(P, c, data, lo, (lo + hi) \div 2) } } :
         TRUE

\* update(ctx, data, len): absorbs the first len bytes found at data.
PrimUpdate(P, c, data, len) ==
  IF len = 0 THEN c ELSE Absorb(P, c, data, 1, len)

\* The byte that ends the message: the n upper bits of ub, then a 1 bit.
PadByte(ub, n) ==
  ((ub \div (2 ^ (8 - n))) * (2 ^ (8 - n))) + (2 ^ (7 - n))

\* The state after padding with n extra bits: the padding byte and the
\* length are absorbed, and for HAVAL also the output length and passes.
PaddedBits(P, c, ub, n) ==
  IF IsHaval(P)
  THEN AbsorbByte(P, AbsorbByte(P, AbsorbByte(P, c, PadByte(ub, n)),
                                c.count % 256),
                  8 * c.par[1] + c.par[2])
  ELSE AbsorbByte(P, AbsorbByte(P, c, PadByte(ub, n)), c.count % 256)

\* The state after padding, no extra bits.
Padded(P, c) == PaddedBits(P, c, 0, 0)

\* ---- 32-bit words as pairs << high half, low half >>
RECURSIVE And16(_, _, _)
And16(a, b, n) ==
  IF n = 0 THEN 0
  ELSE (a % 2) * (b % 2) + 2 * And16(a \div 2, b \div 2, n - 1)

\* x & mask
And32(x, mask) == << And16(x[1], mask[1], 16), And16(x[2], mask[2], 16) >>

\* x | y
Or32(x, y) ==
  << x[1] + y[1] - And16(x[1], y[1], 16), x[2] + y[2] - And16(x[2], y[2], 16) >>

\* SPH_T32(x + y)
Add32(x, y) ==
  << (x[1] + y[1] + ((x[2] + y[2]) \div Half)) % Half, (x[2] + y[2]) % Half >>

\* x >> n, 0 <= n < 32
Shr32(x, n) ==
  IF n >= 16 THEN << 0, x[1] \div (2 ^ (n - 16)) >>
  ELSE << x[1] \div (2 ^ n),
          (x[2] \div (2 ^ n)) + (x[1] % (2 ^ n)) * (2 ^ (16 - n)) >>

\* SPH_ROTL32(x, n), 0 < n < 32
ROTL32(x, n) ==
  IF n >= 16
  THEN << ((x[2] * (2 ^ (n - 16))) % Half) + (x[1] \div (2 ^ (32 - n))),
          ((x[1] * (2 ^ (n - 16))) % Half) + (x[2] \div (2 ^ (32 - n))) >>
  ELSE << ((x[1] * (2 ^ n)) % Half) + (x[2] \div (2 ^ (16 - n))),
          ((x[2] * (2 ^ n)) % Half) + (x[1] \div (2 ^ (16 - n))) >>

\* sph_enc32le: the four bytes of a word, least significant first.
enc32le(x) == << x[2] % 256, x[2] \div 256, x[1] % 256, x[1] \div 256 >>

\* State word sk of a HAVAL context, k in 0..7.
Sw(c, k) == << c.s[2 * k + 1], c.s[2 * k + 2] >>

mix128(a0, a1, a2, a3, n) ==
  IF n > 0
  THEN ROTL32(Or32(Or32(And32(a0, << 0, 255 >>), And32(a1, << 0, 65280 >>)),
                   Or32(And32(a2, << 255, 0 >>), And32(a3, << 65280, 0 >>))),
              n)
  ELSE Or32(Or32(And32(a0, << 0, 255 >>), And32(a1, << 0, 65280 >>)),
            Or32(And32(a2, << 255, 0 >>), And32(a3, << 65280, 0 >>)))

mix160_0(x5, x6, x7) ==
  ROTL32(Or32(Or32(And32(x5, << 504, 0 >>), And32(x6, << 65024, 0 >>)),
              And32(x7, << 0, 63 >>)), 13)

mix160_1(x5, x6, x7) ==
  ROTL32(Or32(Or32(And32(x5, << 65024, 0 >>), And32(x6, << 0, 63 >>)),
              And32(x7, << 0, 4032 >>)), 7)

\* mix160_2 with the mask of x7 one bit short: 0x0003F000.
mix160_2Narrow(x5, x6, x7) ==
  Or32(Or32(And32(x5, << 0, 63 >>), And32(x6, << 0, 4032 >>)),
       And32(x7, << 3, 61440 >>))

mix160_2(x5, x6, x7) ==
  Or32(Or32(And32(x5, << 0, 63 >>), And32(x6, << 0, 4032 >>)),
       And32(x7, << 7, 61440 >>))

mix160_3(x5, x6, x7) ==
  Shr32(Or32(Or32(And32(x5, << 0, 4032 >>), And32(x6, << 7, 61440 >>)),
             And32(x7, << 504, 0 >>)), 6)

mix160_4(x5, x6, x7) ==
  Shr32(Or32(Or32(And32(x5, << 7, 61440 >>), And32(x6, << 504, 0 >>)),
             And32(x7, << 65024, 0 >>)), 12)

mix192_0(x6, x7) ==
  ROTL32(Or32(And32(x6, << 64512, 0 >>), And32(x7, << 0, 31 >>)), 6)

mix192_1(x6, x7) == Or32(And32(x6, << 0, 31 >>), And32(x7, << 0, 992 >>))

mix192_2(x6, x7) ==
  Shr32(Or32(And32(x6, << 0, 992 >>), And32(x7, << 0, 64512 >>)), 5)

mix192_3(x6, x7) ==
  Shr32(Or32(And32(x6, << 0, 64512 >>), And32(x7, << 31, 0 >>)), 10)

mix192_4(x6, x7) ==
  Shr32(Or32(And32(x6, << 31, 0 >>), And32(x7, << 992, 0 >>)), 16)

mix192_5(x6, x7) ==
  Shr32(Or32(And32(x6, << 992, 0 >>), And32(x7, << 64512, 0 >>)), 21)

\* The words haval_out encodes, in the order of their offsets in dst: the
\* arms of switch (sc->olen); no arm, no word.
haval_words(c) ==
  CASE c.par[1] = 4 ->
         << Add32(Sw(c, 0), mix128(Sw(c, 7), Sw(c, 4), Sw(c, 5), Sw(c, 6), 24)),
            Add32(Sw(c, 1), mix128(Sw(c, 6), Sw(c, 7), Sw(c, 4), Sw(c, 5), 16)),
            Add32(Sw(c, 2), mix128(Sw(c, 5), Sw(c, 6), Sw(c, 7), Sw(c, 4), 8)),
            Add32(Sw(c, 3), mix128(Sw(c, 4), Sw(c, 5), Sw(c, 6), Sw(c, 7), 0)) >>
    [] c.par[1] = 5 ->
         << Add32(Sw(c, 0), mix160_0(Sw(c, 5), Sw(c, 6), Sw(c, 7))),
            Add32(Sw(c, 1), mix160_1(Sw(c, 5), Sw(c, 6), Sw(c, 7))),
            Add32(Sw(c, 2), mix160_2(Sw(c, 5), Sw(c, 6), Sw(c, 7))),
            Add32(Sw(c, 3), mix160_3(Sw(c, 5), Sw(c, 6), Sw(c, 7))),
            Add32(Sw(c, 4), mix160_4(Sw(c, 5), Sw(c, 6), Sw(c, 7))) >>
    [] c.par[1] = 6 ->
         << Add32(Sw(c, 0), mix192_0(Sw(c, 6), Sw(c, 7))),
            Add32(Sw(c, 1), mix192_1(Sw(c, 6), Sw(c, 7))),
            Add32(Sw(c, 2), mix192_2(Sw(c, 6), Sw(c, 7))),
            Add32(Sw(c, 3), mix192_3(Sw(c, 6), Sw(c, 7))),
            Add32(Sw(c, 4), mix192_4(Sw(c, 6), Sw(c, 7))),
            Add32(Sw(c, 5), mix192_5(Sw(c, 6), Sw(c, 7))) >>
    [] c.par[1] = 7 ->
         << Add32(Sw(c, 0), And32(Shr32(Sw(c, 7), 27), << 0, 31 >>)),
            Add32(Sw(c, 1), And32(Shr32(Sw(c, 7), 22), << 0, 31 >>)),
            Add32(Sw(c, 2), And32(Shr32(Sw(c, 7), 18), << 0, 15 >>)),
            Add32(Sw(c, 3), And32(Shr32(Sw(c, 7), 13), << 0, 31 >>)),
            Add32(Sw(c, 4), And32(Shr32(Sw(c, 7), 9), << 0, 15 >>)),
            Add32(Sw(c, 5), And32(Shr32(Sw(c, 7), 4), << 0, 31 >>)),
            Add32(Sw(c, 6), And32(Shr32(Sw(c, 7), 0), << 0, 15 >>)) >>
    [] c.par[1] = 8 ->
         << Sw(c, 0), Sw(c, 1), Sw(c, 2), Sw(c, 3),
            Sw(c, 4), Sw(c, 5), Sw(c, 6), Sw(c, 7) >>
    [] OTHER -> << >>

\* haval_out writing every one of the eight words, whatever olen is.
haval_outAllWords(c) ==
  [ j \in 1..32 |-> enc32le(Sw(c, (j - 1) \div 4))[((j - 1) % 4) + 1] ]

\* haval_out: the bytes written from dst on, word k at offset 4 * k, each
\* word encoded with sph_enc32le.
haval_out(c) ==
  CHOOSE d \in
    { [ j \in 1..(4 * Len(w)) |->
          enc32le(w[((j - 1) \div 4) + 1])[((j - 1) % 4) + 1] ] :
      w \in { haval_words(c) } } : TRUE

\* The digest bytes read off the padded state f of a context of P.
DigestBytes(P, f) ==
  IF IsHaval(P) THEN haval_out(f)
  ELSE [ j \in 1..DigestSize(P) |->
           ((f.s[((j - 1) % Len(f.s)) + 1] \div 7) + j * f.s[1] + f.count)
              % 256 ]

\* close(ctx, out): the digest bytes written to out.
PrimDigest(P, c) ==
  CHOOSE d \in { DigestBytes(P, f) : f \in { Padded(P, c) } } : TRUE

\* close(ctx, out): the context afterwards, reinitialised.
PrimReset(P, c) == PrimInit(P)

\* ------------------------------------------------------------ declarations
\* The automatic contexts Hash9 declares, each with its primitive.
ShortLocals ==
  << [ctx |-> "ctx_keccak512", prim |-> "keccak512"],
     [ctx |-> "ctx_cubehash512", prim |-> "cubehash512"],
     [ctx |-> "ctx_panama", prim |-> "panama"],
     [ctx |-> "ctx_whirlpool", prim |-> "whirlpool"] >>

LongLocals ==
  << [ctx |-> "ctx_blake", prim |-> "blake512"],
     [ctx |-> "ctx_sha", prim |-> "sha512"],
     [ctx |-> "ctx_bmw", prim |-> "bmw512"],
     [ctx |-> "ctx_groestl", prim |-> "groestl512"],
     [ctx |-> "ctx_jh", prim |-> "jh512"],
     [ctx |-> "ctx_keccak", prim |-> "keccak512"],
     [ctx |-> "ctx_skein", prim |-> "skein512"],
     [ctx |-> "ctx_luffa", prim |-> "luffa512"],
     [ctx |-> "ctx_tiger", prim |-> "tiger"],
     [ctx |-> "ctx_ripemd", prim |-> "ripemd160"],
     [ctx |-> "ctx_cubehash", prim |-> "cubehash512"],
     [ctx |-> "ctx_panama", prim |-> "panama"],
     [ctx |-> "ctx_shavite", prim |-> "shavite512"],
     [ctx |-> "ctx_simd", prim |-> "simd512"],
     [ctx |-> "ctx_echo", prim |-> "echo512"],
     [ctx |-> "ctx_hamsi", prim |-> "hamsi512"],
     [ctx |-> "ctx_fugue", prim |-> "fugue512"],
     [ctx |-> "ctx_shabal", prim |-> "shabal512"],
     [ctx |-> "ctx_haval", prim |-> "haval256_5"],
     [ctx |-> "ctx_whirlpool", prim |-> "whirlpool"],
     [ctx |-> "ctx_lowcube", prim |-> "cubehash384"],
     [ctx |-> "ctx_whirlpool1", prim |-> "whirlpool1"],
     [ctx |-> "ctx_tiger2", prim |-> "tiger2"] >>

Locals(v) == IF v = "short" THEN ShortLocals ELSE LongLocals

\* The GLOBAL zero-state contexts, each with its primitive.
ShortGlobals ==
  << [z |-> "z_keccak", prim |-> "keccak512"],
     [z |-> "z_panama", prim |-> "panama"],
     [z |-> "z_cubehash", prim |-> "cubehash512"],
     [z |-> "z_whirlpool", prim |-> "whirlpool"] >>

LongGlobals ==
  << [z |-> "z_blake", prim |-> "blake512"],
     [z |-> "z_sha", prim |-> "sha512"],
     [z |-> "z_bmw", prim |-> "bmw512"],
     [z |-> "z_lowcube", prim |-> "cubehash384"],
     [z |-> "z_whirlpool1", prim |-> "whirlpool1"],
     [z |-> "z_groestl", prim |-> "groestl512"],
     [z |-> "z_jh", prim |-> "jh512"],
     [z |-> "z_keccak", prim |-> "keccak512"],
     [z |-> "z_skein", prim |-> "skein512"],
     [z |-> "z_luffa", prim |-> "luffa512"],
     [z |-> "z_tiger", prim |-> "tiger"],
     [z |-> "z_tiger2", prim |-> "tiger2"],
     [z |-> "z_ripemd", prim |-> "ripemd160"],
     [z |-> "z_cubehash", prim |-> "cubehash512"],
     [z |-> "z_panama", prim |-> "panama"],
     [z |-> "z_shavite", prim |-> "shavite512"],
     [z |-> "z_simd", prim |-> "simd512"],
     [z |-> "z_echo", prim |-> "echo512"],
     [z |-> "z_hamsi", prim |-> "hamsi512"],
     [z |-> "z_fugue", prim |-> "fugue512"],
     [z |-> "z_shabal", prim |-> "shabal512"],
     [z |-> "z_haval", prim |-> "haval256_5"],
     [z |-> "z_whirlpool", prim |-> "whirlpool"] >>

Globals(v) == IF v = "short" THEN ShortGlobals ELSE LongGlobals

\* The body of fillz: one init per line, on the object the line names.
ShortFillzBody ==
  << [prim |-> "keccak512", z |-> "z_keccak"],
     [prim |-> "cubehash512", z |-> "z_cubehash"],
     [prim |-> "panama", z |-> "z_panama"],
     [prim |-> "whirlpool", z |-> "z_whirlpool"] >>

LongFillzBody ==
  << [prim |-> "blake512", z |-> "z_blake"],
     [prim |-> "sha512", z |-> "z_sha"],
     [prim |-> "bmw512", z |-> "z_bmw"],
     [prim |-> "groestl512", z |-> "z_groestl"],
     [prim |-> "jh512", z |-> "z_jh"],
     [prim |-> "keccak512", z |-> "z_keccak"],
     [prim |-> "skein512", z |-> "z_skein"],
     [prim |-> "luffa512", z |-> "z_luffa"],
     [prim |-> "tiger", z |-> "z_tiger"],
     [prim |-> "ripemd160", z |-> "z_ripemd"],
     [prim |-> "cubehash512", z |-> "z_cubehash"],
     [prim |-> "panama", z |-> "z_panama"],
     [prim |-> "shavite512", z |-> "z_shavite"],
     [prim |-> "simd512", z |-> "z_simd"],
     [prim |-> "echo512", z |-> "z_echo"],
     [prim |-> "hamsi512", z |-> "z_hamsi"],
     [prim |-> "fugue512", z |-> "z_fugue"],
     [prim |-> "shabal512", z |-> "z_shabal"],
     [prim |-> "haval256_5", z |-> "z_haval"],
     [prim |-> "whirlpool", z |-> "z_whirlpool"],
     [prim |-> "cubehash384", z |-> "z_lowcube"],
     [prim |-> "whirlpool1", z |-> "z_whirlpool1"],
     [prim |-> "groestl384", z |-> "z_lowgroestl"],
     [prim |-> "tiger2", z |-> "tiger2"] >>

FillzBody(v) == IF v = "short" THEN ShortFillzBody ELSE LongFillzBody

\* The clone macros: memcpy(&ctx, &z, sizeof(z)).
ShortZMacros ==
  << [name |-> "ZKECCAK", ctx |-> "ctx_keccak512", z |-> "z_keccak"],
     [name |-> "ZCUBEHASH", ctx |-> "ctx_cubehash512", z |-> "z_cubehash"],
     [name |-> "ZPANAMA", ctx |-> "ctx_panama", z |-> "z_panama"],
     [name |-> "ZWHIRLPOOL", ctx |-> "ctx_whirlpool", z |-> "z_whirlpool"] >>

LongZMacros ==
  << [name |-> "ZBLAKE", ctx |-> "ctx_blake", z |-> "z_blake"],
     [name |-> "ZSHA512", ctx |-> "ctx_sha", z |-> "z_sha"],
     [name |-> "ZBMW", ctx |-> "ctx_bmw", z |-> "z_bmw"],
     [name |-> "ZGROESTL", ctx |-> "ctx_groestl", z |-> "z_groestl"],
     [name |-> "ZJH", ctx |-> "ctx_jh", z |-> "z_jh"],
     [name |-> "ZKECCAK", ctx |-> "ctx_keccak", z |-> "z_keccak"],
     [name |-> "ZSKEIN", ctx |-> "ctx_skein", z |-> "z_skein"],
     [name |-> "ZLUFFA", ctx |-> "ctx_luffa", z |-> "z_luffa"],
     [name |-> "ZTIGER", ctx |-> "ctx_tiger", z |-> "z_tiger"],
     [name |-> "ZRIPEMD", ctx |-> "ctx_ripemd", z |-> "z_ripemd"],
     [name |-> "ZCUBEHASH", ctx |-> "ctx_cubehash", z |-> "z_cubehash"],
     [name |-> "ZPANAMA", ctx |-> "ctx_panama", z |-> "z_panama"],
     [name |-> "ZSHAVITE", ctx |-> "ctx_shavite", z |-> "z_shavite"],
     [name |-> "ZSIMD", ctx |-> "ctx_simd", z |-> "z_simd"],
     [name |-> "ZECHO", ctx |-> "ctx_echo", z |-> "z_echo"],
     [name |-> "ZHAMSI", ctx |-> "ctx_hamsi", z |-> "z_hamsi"],
     [name |-> "ZFUGUE", ctx |-> "ctx_fugue", z |-> "z_fugue"],
     [name |-> "ZSHABAL", ctx |-> "ctx_shabal", z |-> "z_shabal"],
     [name |-> "ZHAVAL", ctx |-> "ctx_haval", z |-> "z_haval"],
     [name |-> "ZWHIRLPOOL", ctx |-> "ctx_whirlpool", z |-> "z_whirlpool"],
     [name |-> "ZLOWCUBE", ctx |-> "ctx_lowcube", z |-> "z_lowcube"],
     [name |-> "ZWHIRLPOOL1", ctx |-> "ctx_whirlpool1", z |-> "z_whirlpool1"],
     [name |-> "ZTIGER2", ctx |-> "ctx_tiger2", z |-> "z_tiger2"] >>

ZMacros(v) == IF v = "short" THEN ShortZMacros ELSE LongZMacros

\* The statements of Hash9, three per step: init, update, close.  src is the
\* index of the hash[] element the update reads (-1: the caller's range),
\* dst the index of the element the close writes, len the literal length
\* of the update (0 where the length is computed from the range).
\* ShortChain with the third update reading hash[0] instead of hash[1].
ShortChainStaleRead ==
  << [prim |-> "panama", ctx |-> "ctx_panama", src |-> -1, len |-> 0, dst |-> 0],
     [prim |-> "whirlpool", ctx |-> "ctx_whirlpool", src |-> 0, len |-> 64, dst |-> 1],
     [prim |-> "keccak512", ctx |-> "ctx_keccak512", src |-> 0, len |-> 64, dst |-> 2],
     [prim |-> "panama", ctx |-> "ctx_panama", src |-> 2, len |-> 64, dst |-> 3],
     [prim |-> "cubehash512", ctx |-> "ctx_cubehash512", src |-> 3, len |-> 64, dst |-> 4] >>

\* ShortChain with the Whirlpool and Keccak steps exchanged.
ShortChainSwapped ==
  << [prim |-> "panama", ctx |-> "ctx_panama", src |-> -1, len |-> 0, dst |-> 0],
     [prim |-> "keccak512", ctx |-> "ctx_keccak512", src |-> 0, len |-> 64, dst |-> 1],
     [prim |-> "whirlpool", ctx |-> "ctx_whirlpool", src |-> 1, len |-> 64, dst |-> 2],
     [prim |-> "panama", ctx |-> "ctx_panama", src |-> 2, len |-> 64, dst |-> 3],
     [prim |-> "cubehash512", ctx |-> "ctx_cubehash512", src |-> 3, len |-> 64, dst |-> 4] >>

ShortChain ==
  << [prim |-> "panama", ctx |-> "ctx_panama", src |-> -1, len |-> 0, dst |-> 0],
     [prim |-> "whirlpool", ctx |-> "ctx_whirlpool", src |-> 0, len |-> 64, dst |-> 1],
     [prim |-> "keccak512", ctx |-> "ctx_keccak512", src |-> 1, len |-> 64, dst |-> 2],
     [prim |-> "panama", ctx |-> "ctx_panama", src |-> 2, len |-> 64, dst |-> 3],
     [prim |-> "cubehash512", ctx |-> "ctx_cubehash512", src |-> 3, len |-> 64, dst |-> 4] >>

\* LongChain with the last step run on Whirlpool-1 instead of Whirlpool.
LongChainLastWhirlpool1 ==
  << [prim |-> "whirlpool1", ctx |-> "ctx_whirlpool1", src |-> -1, len |-> 0, dst |-> 0],
     [prim |-> "bmw512", ctx |-> "ctx_bmw", src |-> 0, len |-> 64, dst |-> 1],
     [prim |-> "groestl512", ctx |-> "ctx_groestl", src |-> 1, len |-> 64, dst |-> 2],
     [prim |-> "echo512", ctx |-> "ctx_echo", src |-> 2, len |-> 64, dst |-> 3],
     [prim |-> "hamsi512", ctx |-> "ctx_hamsi", src |-> 3, len |-> 64, dst |-> 4],
     [prim |-> "fugue512", ctx |-> "ctx_fugue", src |-> 4, len |-> 64, dst |-> 5],
     [prim |-> "shabal512", ctx |-> "ctx_shabal", src |-> 5, len |-> 64, dst |-> 6],
     [prim |-> "jh512", ctx |-> "ctx_jh", src |-> 6, len |-> 64, dst |-> 7],
     [prim |-> "keccak512", ctx |-> "ctx_keccak", src |-> 7, len |-> 64, dst |-> 8],
     [prim |-> "skein512", ctx |-> "ctx_skein", src |-> 8, len |-> 64, dst |-> 9],
     [prim |-> "luffa512", ctx |-> "ctx_luffa", src |-> 9, len |-> 64, dst |-> 10],
     [prim |-> "tiger", ctx |-> "ctx_tiger", src |-> 10, len |-> 64, dst |-> 11],
     [prim |-> "cubehash512", ctx |-> "ctx_cubehash", src |-> 11, len |-> 64, dst |-> 12],
     [prim |-> "panama", ctx |-> "ctx_panama", src |-> 12, len |-> 64, dst |-> 13],
     [prim |-> "sha512", ctx |-> "ctx_sha", src |-> 13, len |-> 64, dst |-> 14],
     [prim |-> "shavite512", ctx |-> "ctx_shavite", src |-> 14, len |-> 64, dst |-> 15],
     [prim |-> "simd512", ctx |-> "ctx_simd", src |-> 15, len |-> 64, dst |-> 16],
     [prim |-> "blake512", ctx |-> "ctx_blake", src |-> 16, len |-> 64, dst |-> 17],
     [prim |-> "ripemd160", ctx |-> "ctx_ripemd", src |-> 17, len |-> 64, dst |-> 18],
     [prim |-> "haval256_5", ctx |-> "ctx_haval", src |-> 18, len |-> 64, dst |-> 19],
     [prim |-> "cubehash384", ctx |-> "ctx_lowcube", src |-> 19, len |-> 64, dst |-> 20],
     [prim |-> "whirlpool1", ctx |-> "ctx_whirlpool1", src |-> 20, len |-> 64, dst |-> 21],
     [prim |-> "tiger2", ctx |-> "ctx_tiger2", src |-> 21, len |-> 64, dst |-> 22],
     [prim |-> "whirlpool1", ctx |-> "ctx_whirlpool1", src |-> 22, len |-> 64, dst |-> 23] >>

LongChain ==
  << [prim |-> "whirlpool1", ctx |-> "ctx_whirlpool1", src |-> -1, len |-> 0, dst |-> 0],
     [prim |-> "bmw512", ctx |-> "ctx_bmw", src |-> 0, len |-> 64, dst |-> 1],
     [prim |-> "groestl512", ctx |-> "ctx_groestl", src |-> 1, len |-> 64, dst |-> 2],
     [prim |-> "echo512", ctx |-> "ctx_echo", src |-> 2, len |-> 64, dst |-> 3],
     [prim |-> "hamsi512", ctx |-> "ctx_hamsi", src |-> 3, len |-> 64, dst |-> 4],
     [prim |-> "fugue512", ctx |-> "ctx_fugue", src |-> 4, len |-> 64, dst |-> 5],
     [prim |-> "shabal512", ctx |-> "ctx_shabal", src |-> 5, len |-> 64, dst |-> 6],
     [prim |-> "jh512", ctx |-> "ctx_jh", src |-> 6, len |-> 64, dst |-> 7],
     [prim |-> "keccak512", ctx |-> "ctx_keccak", src |-> 7, len |-> 64, dst |-> 8],
     [prim |-> "skein512", ctx |-> "ctx_skein", src |-> 8, len |-> 64, dst |-> 9],
     [prim |-> "luffa512", ctx |-> "ctx_luffa", src |-> 9, len |-> 64, dst |-> 10],
     [prim |-> "tiger", ctx |-> "ctx_tiger", src |-> 10, len |-> 64, dst |-> 11],
     [prim |-> "cubehash512", ctx |-> "ctx_cubehash", src |-> 11, len |-> 64, dst |-> 12],
     [prim |-> "panama", ctx |-> "ctx_panama", src |-> 12, len |-> 64, dst |-> 13],
     [prim |-> "sha512", ctx |-> "ctx_sha", src |-> 13, len |-> 64, dst |-> 14],
     [prim |-> "shavite512", ctx |-> "ctx_shavite", src |-> 14, len |-> 64, dst |-> 15],
     [prim |-> "simd512", ctx |-> "ctx_simd", src |-> 15, len |-> 64, dst |-> 16],
     [prim |-> "blake512", ctx |-> "ctx_blake", src |-> 16, len |-> 64, dst |-> 17],
     [prim |-> "ripemd160", ctx |-> "ctx_ripemd", src |-> 17, len |-> 64, dst |-> 18],
     [prim |-> "haval256_5", ctx |-> "ctx_haval", src |-> 18, len |-> 64, dst |-> 19],
     [prim |-> "cubehash384", ctx |-> "ctx_lowcube", src |-> 19, len |-> 64, dst |-> 20],
     [prim |-> "whirlpool1", ctx |-> "ctx_whirlpool1", src |-> 20, len |-> 64, dst |-> 21],
     [prim |-> "tiger2", ctx |-> "ctx_tiger2", src |-> 21, len |-> 64, dst |-> 22],
     [prim |-> "whirlpool", ctx |-> "ctx_whirlpool", src |-> 22, len |-> 64, dst |-> 23] >>

\* Chain with Groestl-384 in the place of Groestl-512 at step 3 of the
\* 24-step definition.
ChainLowGroestl(v) ==
  IF v = "short" THEN ShortChain
  ELSE [ LongChain EXCEPT ![3] = [ @ EXCEPT !.prim = "groestl384" ] ]

\* Chain with the third update reading hash[0] again instead of hash[1].
ChainRereadFirst(v) ==
  [ (IF v = "short" THEN ShortChain ELSE LongChain) EXCEPT
      ![3] = [ @ EXCEPT !.src = 0 ] ]

\* Chain with the third close writing hash[1] a second time instead of
\* hash[2].
ChainReuseBuffer(v) ==
  [ (IF v = "short" THEN ShortChain ELSE LongChain) EXCEPT
      ![3] = [ @ EXCEPT !.dst = 1 ] ]

Chain(v) == IF v = "short" THEN ShortChain ELSE LongChain

\* uint512 hash[N]: the number of elements the array is declared with.
HashLen(v) == IF v = "short" THEN 5 ELSE 24

\* ReturnIndex naming the element before the last one.
ReturnIndexPrevious(v) == IF v = "short" THEN 3 ELSE 22

\* The hash[] element whose trim256() Hash9 returns.
ReturnIndex(v) == IF v = "short" THEN 4 ELSE 23

Range(f) == { f[i] : i \in DOMAIN f }

LocalNames(v) == { l.ctx : l \in Range(Locals(v)) }

LocalPrim(v, n) == (CHOOSE l \in Range(Locals(v)) : l.ctx = n).prim

\* Every object fillz or a clone macro names.
ZNames(v) ==
  { g.z : g \in Range(Globals(v)) } \cup { f.z : f \in Range(FillzBody(v)) }

\* The primitive whose context type an object named by fillz or a macro has.
ZPrim(v, n) ==
  IF \E g \in Range(Globals(v)) : g.z = n
  THEN (CHOOSE g \in Range(Globals(v)) : g.z = n).prim
  ELSE (CHOOSE f \in Range(FillzBody(v)) : f.z = n).prim

\* uint512(): a 64-byte value, all bytes zero.
uint512 == [ i \in 1..WideLen |-> 0 ]

\* trim256(): the first 32 bytes of the 64-byte value.
trim256(w) == SubSeq(w, 1, TrimLen)

\* static unsigned char pblank[1]: one byte of static storage.
pblank == << 0 >>

\* ------------------------------------------------------------ state
VARIABLES
  variant,  \* which definition of Hash9 the build holds
  z,        \* the objects fillz and the clone macros name
  warmed,   \* fillz has run to its end at least once
  pc,       \* position inside Hash9: idle, init, update, close, return, done
  step,     \* the step of the chain the position belongs to
  msg,      \* the caller's range [pbegin, pend)
  ctx,      \* the automatic contexts of the running call
  hash,     \* the automatic array hash[] of the running call
  ret,      \* the value the last call returned
  trace,    \* the primitive operations the running call has executed
  clone,    \* the context a clone macro was last expanded on, outside Hash9
  probe,    \* the message whose digests are compared
  seen,     \* the digests returned for probe, with the cache state of the call
  phase,    \* probe returned (1), then another message (2), then probe (3)
  fpc,      \* per thread: its position inside the body of fillz
  runs,     \* how many times the body of fillz has been entered
  tpc,      \* per thread: its position inside its call of Hash9
  tstep,    \* per thread: the step of the chain its position belongs to
  tmsg,     \* per thread: the range its call was given
  tctx,     \* per frame: the automatic contexts of a call of Hash9
  thash,    \* per frame: the automatic array hash[] of a call of Hash9
  tret,     \* per thread: the value its call returned
  overlap,  \* a call of Hash9 was entered while another was running
  aprim,    \* interface: the primitive whose functions a caller uses
  acx,      \* interface: the caller's context
  aprev,    \* interface: the context before the last call
  ahist,    \* interface: the bytes absorbed since the last init or close
  aout,     \* interface: the caller's output buffer
  awritten, \* interface: the bytes the last close wrote to the buffer
  afinal,   \* interface: the padded state the last close read the digest off
  abits,    \* interface: the extra bits (ub, n) of the last close
  aop,      \* interface: the kind of the last call
  aname,    \* interface: the name of the function that ran last
  acore,    \* interface: the core function it handed the call to
  afrom,    \* interface: what wrote the state the cycle began in
  azero,    \* interface: a zero-length update ran in the cycle
  acycles,  \* interface: closes so far
  kprim,    \* cloning: the HAVAL variant of the two contexts
  kmem,     \* cloning: the objects that hold a computation state
  kref,     \* cloning: the object each of the contexts orig and copy names
  khist,    \* cloning: per context, the bytes absorbed since init
  kdig,     \* cloning: per context, the digest its close wrote
  kcopied,  \* cloning: the copy has been made
  kat,      \* cloning: the bytes absorbed when the copy was made
  qkind,    \* functions: which function was last applied
  qf,       \* functions: the number p of the boolean function Fp
  qx,       \* functions: the arguments x0..x6 it was given
  qout,     \* functions: the word it returned
  qc,       \* functions: the context haval_out was given
  qwords,   \* functions: the words haval_out encoded
  hpc,      \* core: position inside sph_haval_N_comp
  hn,       \* core: N, the number of passes
  hk,       \* core: the position in COREn of the pass that runs
  hj,       \* core: the steps of that pass done so far
  hmsg,     \* core: the array msg
  hval,     \* core: the array val, per build
  hval0,    \* core: val as the caller passed it
  hs,       \* core: the variables s0..s7, per build
  hu,       \* core: the variables u0..u7, per build
  hend,     \* core: s0..s7 after the last pass, per build
  hlast,    \* core: register, word index and constant of the last STEP
  hwords,   \* core: the word indices the running pass has read
  hregs,    \* core: the registers the running pass has written
  hpasses,  \* core: the passes completed
  hsteps    \* core: the number of STEPs executed

\* The threads that use the header at the same time.
Threads == { 1, 2 }

warmVars == << fpc, runs >>

concVars == << tpc, tstep, tmsg, tctx, thash, tret, overlap >>

apiVars ==
  << aprim, acx, aprev, ahist, aout, awritten, afinal, abits, aop, aname,
     acore, afrom, azero, acycles >>

cloneVars == << kprim, kmem, kref, khist, kdig, kcopied, kat >>

probeVars == << qkind, qf, qx, qout, qc, qwords >>

coreVars ==
  << hpc, hn, hk, hj, hmsg, hval, hval0, hs, hu, hend, hlast, hwords, hregs,
     hpasses, hsteps >>

havalVars == << cloneVars, probeVars, coreVars >>

auxVars == << warmVars, concVars, apiVars, havalVars >>

vars ==
  << variant, z, warmed, pc, step, msg, ctx, hash, ret, trace, clone, probe,
     seen, phase, auxVars >>

\* No thread is inside fillz.
WarmIdle ==
  /\ fpc = [ t \in Threads |-> 0 ]
  /\ runs = 0

\* The automatic objects of a call of Hash9 as their declarations leave them.
NewCtx(v) == [ n \in LocalNames(v) |-> Uninit ]

NewHash(v) == [ i \in 0..(HashLen(v) - 1) |-> uint512 ]

\* No thread is inside Hash9.
ConcIdle ==
  /\ tpc = [ t \in Threads |-> "idle" ]
  /\ tstep = [ t \in Threads |-> 0 ]
  /\ tmsg = [ t \in Threads |-> << >> ]
  /\ tctx = [ t \in Threads |-> NewCtx(variant) ]
  /\ thash = [ t \in Threads |-> NewHash(variant) ]
  /\ tret = [ t \in Threads |-> << >> ]
  /\ overlap = FALSE

\* The two contexts of a caller that clones a computation.
CloneNames == { "orig", "copy" }

\* No caller has declared the contexts.
CloneIdle ==
  /\ kprim = "none"
  /\ kmem = [ o \in 1..2 |-> Uninit ]
  /\ kref = [ x \in CloneNames |-> IF x = "orig" THEN 1 ELSE 2 ]
  /\ khist = [ x \in CloneNames |-> << >> ]
  /\ kdig = [ x \in CloneNames |-> << >> ]
  /\ kcopied = FALSE
  /\ kat = 0

\* No function of haval.c has been applied.
ProbeIdle ==
  /\ qkind = "none"
  /\ qf = 0
  /\ qx = << >>
  /\ qout = << >>
  /\ qc = Uninit
  /\ qwords = << >>

\* The two builds of the passes: with SPH_SMALL_FOOTPRINT_HAVAL set, the
\* loops over MPp and RKp; without it, the unrolled passes.
Forms == { "small", "unrolled" }

\* No call of sph_haval_N_comp is running.
CoreIdle ==
  /\ hpc = "idle"
  /\ hn = 0
  /\ hk = 0
  /\ hj = 0
  /\ hmsg = << >>
  /\ hval = << >>
  /\ hval0 = << >>
  /\ hs = << >>
  /\ hu = << >>
  /\ hend = << >>
  /\ hlast = << >>
  /\ hwords = [ f \in Forms |-> << >> ]
  /\ hregs = [ f \in Forms |-> << >> ]
  /\ hpasses = << >>
  /\ hsteps = 0

\* No caller has declared a context.
ApiIdle ==
  /\ aprim = "none"
  /\ acx = Uninit
  /\ aprev = Uninit
  /\ ahist = << >>
  /\ aout = << >>
  /\ awritten = 0
  /\ afinal = Uninit
  /\ abits = << 0, 0 >>
  /\ aop = "none"
  /\ aname = ""
  /\ acore = ""
  /\ afrom = "none"
  /\ azero = FALSE
  /\ acycles = 0

NoClone == [ name |-> "none" ]

Init ==
  /\ variant \in Variants
  /\ z = [ n \in ZNames(variant) |-> ZeroCtx(ZPrim(variant, n)) ]
  /\ warmed = FALSE
  /\ pc = "idle"
  /\ step = 0
  /\ msg = << >>
  /\ ctx = [ n \in LocalNames(variant) |-> Uninit ]
  /\ hash = [ i \in 0..(HashLen(variant) - 1) |-> uint512 ]
  /\ ret = << >>
  /\ trace = << >>
  /\ clone = NoClone
  /\ probe \in Messages
  /\ seen = { }
  /\ phase = 0
  /\ WarmIdle
  /\ ConcIdle
  /\ ApiIdle
  /\ CloneIdle
  /\ ProbeIdle
  /\ CoreIdle

Outside == pc \in { "idle", "done" }

\* Hash9 has returned and its automatic objects are gone.
Left ==
  /\ pc' = "idle"
  /\ step' = 0
  /\ msg' = << >>
  /\ ctx' = [ n \in LocalNames(variant) |-> Uninit ]
  /\ hash' = [ i \in 0..(HashLen(variant) - 1) |-> uint512 ]
  /\ ret' = << >>
  /\ trace' = << >>

\* fillz(): every init of the body, each on the object its line names.
fillz ==
  /\ Outside
  /\ z' = [ n \in DOMAIN z |->
              IF \E f \in Range(FillzBody(variant)) : f.z = n
              THEN PrimInit((CHOOSE f \in Range(FillzBody(variant)) : f.z = n).prim)
              ELSE z[n] ]
  /\ warmed' = TRUE
  /\ Left
  /\ UNCHANGED << auxVars, variant, clone, probe, seen, phase >>

\* ZClone with the arguments of memcpy exchanged: the caller's context, not
\* yet written, is copied over the global.
ZCloneReversed(i) ==
  LET m == ZMacros(variant)[i]
  IN  /\ Outside
      /\ \E j \in Stale :
           z' = [ z EXCEPT ![m.z] = StaleCtx(ZPrim(variant, m.z), j) ]
      /\ Left
      /\ UNCHANGED << auxVars, variant, warmed, clone, probe, seen, phase >>

\* A clone macro expanded on a context of a caller:
\* memcpy(&ctx_X, &z_X, sizeof(z_X)).
ZClone(i) ==
  LET m == ZMacros(variant)[i]
  IN  /\ Outside
      /\ clone' = [ name |-> m.name, ctx |-> m.ctx, val |-> z[m.z],
                    warm |-> warmed ]
      /\ Left
      /\ UNCHANGED << auxVars, variant, z, warmed, probe, seen, phase >>

\* Entry of Hash9: the contexts are declared, hash[] is constructed, and
\* control reaches the first init.
Hash9Call(m) ==
  /\ Outside
  /\ msg' = m
  /\ ctx' = [ n \in LocalNames(variant) |-> Uninit ]
  /\ hash' = [ i \in 0..(HashLen(variant) - 1) |-> uint512 ]
  /\ pc' = "init"
  /\ step' = 1
  /\ trace' = << >>
  /\ ret' = << >>
  /\ clone' = NoClone
  /\ UNCHANGED << auxVars, variant, z, warmed, probe, seen, phase >>

\* Hash9Init with the call of init left out.
Hash9InitOmitted ==
  LET S == Chain(variant)[step]
  IN  /\ pc = "init"
      /\ trace' = Append(trace, [ step |-> step, op |-> "init", prim |-> S.prim,
                                  ctx |-> S.ctx, buf |-> -2, len |-> 0,
                                  ptr |-> "none" ])
      /\ pc' = "update"
      /\ UNCHANGED << auxVars, variant, z, warmed, step, msg, ctx, hash, ret, clone,
                      probe, seen, phase >>

\* Hash9Init with the clone macro of the context in the place of init.
Hash9InitByClone ==
  LET S == Chain(variant)[step]
      m == CHOOSE x \in Range(ZMacros(variant)) : x.ctx = S.ctx
  IN  /\ pc = "init"
      /\ ctx' = [ ctx EXCEPT ![S.ctx] = z[m.z] ]
      /\ trace' = Append(trace, [ step |-> step, op |-> "init", prim |-> S.prim,
                                  ctx |-> S.ctx, buf |-> -2, len |-> 0,
                                  ptr |-> "none" ])
      /\ pc' = "update"
      /\ UNCHANGED << auxVars, variant, z, warmed, step, msg, hash, ret, clone, probe,
                      seen, phase >>

\* Hash9Init with the address of the previous step's context as the
\* argument of init.
Hash9InitWrongCtx ==
  LET S == Chain(variant)[step]
      W == Chain(variant)[IF step = 1 THEN 1 ELSE step - 1]
  IN  /\ pc = "init"
      /\ ctx' = [ ctx EXCEPT ![W.ctx] = PrimInit(S.prim) ]
      /\ trace' = Append(trace, [ step |-> step, op |-> "init", prim |-> S.prim,
                                  ctx |-> W.ctx, buf |-> -2, len |-> 0,
                                  ptr |-> "none" ])
      /\ pc' = "update"
      /\ UNCHANGED << auxVars, variant, z, warmed, step, msg, hash, ret, clone, probe,
                      seen, phase >>

\* sph_P_init(&ctx_P) of the current step.
Hash9Init ==
  LET S == Chain(variant)[step]
  IN  /\ pc = "init"
      /\ ctx' = [ ctx EXCEPT ![S.ctx] = PrimInit(S.prim) ]
      /\ trace' = Append(trace, [ step |-> step, op |-> "init", prim |-> S.prim,
                                  ctx |-> S.ctx, buf |-> -2, len |-> 0,
                                  ptr |-> "none" ])
      /\ pc' = "update"
      /\ UNCHANGED << auxVars, variant, z, warmed, step, msg, hash, ret, clone, probe,
                      seen, phase >>

\* FirstPtr without the test for the empty range.
FirstPtrUnguarded(m) == "pbegin"

\* The data pointer of the first update:
\* pbegin == pend ? pblank : &pbegin[0].
FirstPtr(m) == IF m = << >> THEN "pblank" ELSE "pbegin"

\* The length of the first update: (pend - pbegin) * sizeof(pbegin[0]).
FirstLen(m) == Len(m) * SizeofElem

\* The bytes found at a data pointer.
Deref(p, m, h, S) ==
  CASE p = "pblank" -> pblank
    [] p = "pbegin" -> m
    [] OTHER -> h[S.src]

\* Hash9Update with the length of the caller's range passed at every step.
Hash9UpdateMsgLen ==
  LET S   == Chain(variant)[step]
      p   == IF S.src = -1 THEN FirstPtr(msg) ELSE "hash"
      len == FirstLen(msg)
  IN  /\ pc = "update"
      /\ \E j \in IF ctx[S.ctx] = Uninit THEN Stale ELSE { 0 } :
           \E c \in { ReadCtx(S.prim, ctx[S.ctx], j) },
              data \in { Deref(p, msg, hash, S) } :
             ctx' = [ ctx EXCEPT ![S.ctx] = PrimUpdate(S.prim, c, data, len) ]
      /\ trace' = Append(trace, [ step |-> step, op |-> "update",
                                  prim |-> S.prim, ctx |-> S.ctx,
                                  buf |-> S.src, len |-> len, ptr |-> p ])
      /\ pc' = "close"
      /\ UNCHANGED << auxVars, variant, z, warmed, step, msg, hash, ret, clone,
                      probe, seen, phase >>

\* sph_P(&ctx_P, data, len) of the current step.
Hash9Update ==
  LET S   == Chain(variant)[step]
      p   == IF S.src = -1 THEN FirstPtr(msg) ELSE "hash"
      len == IF S.src = -1 THEN FirstLen(msg) ELSE S.len
  IN  /\ pc = "update"
      /\ \E j \in IF ctx[S.ctx] = Uninit THEN Stale ELSE { 0 } :
           \E c \in { ReadCtx(S.prim, ctx[S.ctx], j) },
              data \in { Deref(p, msg, hash, S) } :
             ctx' = [ ctx EXCEPT ![S.ctx] = PrimUpdate(S.prim, c, data, len) ]
      /\ trace' = Append(trace, [ step |-> step, op |-> "update",
                                  prim |-> S.prim, ctx |-> S.ctx,
                                  buf |-> S.src, len |-> len, ptr |-> p ])
      /\ pc' = "close"
      /\ UNCHANGED << auxVars, variant, z, warmed, step, msg, hash, ret, clone, probe,
                      seen, phase >>

\* The bytes of a hash[] element after a close wrote digest d at its start.
Written(old, d) == d \o SubSeq(old, Len(d) + 1, Len(old))

\* Hash9Close leaving the chain one step early.
Hash9CloseEarlyExit ==
  LET S == Chain(variant)[step]
  IN  /\ pc = "close"
      /\ \E d \in { PrimDigest(S.prim, ReadCtx(S.prim, ctx[S.ctx], 0)) } :
             /\ hash' = [ hash EXCEPT ![S.dst] = Written(hash[S.dst], d) ]
             /\ trace' = Append(trace, [ step |-> step, op |-> "close",
                                         prim |-> S.prim, ctx |-> S.ctx,
                                         buf |-> S.dst, len |-> Len(d),
                                         ptr |-> "hash" ])
      /\ ctx' = [ ctx EXCEPT ![S.ctx] = PrimReset(S.prim, ctx[S.ctx]) ]
      /\ IF step >= Len(Chain(variant)) - 1
         THEN pc' = "return" /\ step' = step
         ELSE pc' = "init" /\ step' = step + 1
      /\ UNCHANGED << auxVars, variant, z, warmed, msg, ret, clone, probe, seen, phase >>

\* sph_P_close(&ctx_P, &hash[dst]) of the current step.
Hash9Close ==
  LET S == Chain(variant)[step]
  IN  /\ pc = "close"
      /\ \E j \in IF ctx[S.ctx] = Uninit THEN Stale ELSE { 0 } :
           \E d \in { PrimDigest(S.prim, ReadCtx(S.prim, ctx[S.ctx], j)) } :
             /\ hash' = [ hash EXCEPT ![S.dst] = Written(hash[S.dst], d) ]
             /\ trace' = Append(trace, [ step |-> step, op |-> "close",
                                         prim |-> S.prim, ctx |-> S.ctx,
                                         buf |-> S.dst, len |-> Len(d),
                                         ptr |-> "hash" ])
      /\ ctx' = [ ctx EXCEPT ![S.ctx] = PrimReset(S.prim, ctx[S.ctx]) ]
      /\ IF step = Len(Chain(variant))
         THEN pc' = "return" /\ step' = step
         ELSE pc' = "init" /\ step' = step + 1
      /\ UNCHANGED << auxVars, variant, z, warmed, msg, ret, clone, probe, seen, phase >>

\* return hash[N-1].trim256();
Hash9Return ==
  /\ pc = "return"
  /\ ret' = trim256(hash[ReturnIndex(variant)])
  /\ pc' = "done"
  /\ seen' = IF msg = probe
             THEN seen \cup { [ d |-> ret', warm |-> warmed ] }
             ELSE seen
  /\ phase' = CASE phase = 0 /\ msg = probe -> 1
                [] phase = 1 /\ msg # probe -> 2
                [] phase = 2 /\ msg = probe -> 3
                [] OTHER -> phase
  /\ UNCHANGED << auxVars, variant, z, warmed, step, msg, ctx, hash, trace, clone,
                  probe >>

Hash9Step == Hash9Init \/ Hash9Update \/ Hash9Close \/ Hash9Return

Next ==
  \/ fillz
  \/ \E i \in 1..Len(ZMacros(variant)) : ZClone(i)
  \/ \E m \in Messages : Hash9Call(m)
  \/ Hash9Init
  \/ Hash9Update
  \/ Hash9Close
  \/ Hash9Return

Spec == Init /\ [][Next]_vars

\* Hash9 is straight-line code: once entered, its next statement runs.
FairSpec == Spec /\ WF_vars(Hash9Step)

\* ------------------------------------------------------------ properties
\* Number of steps of the chain of the build.
K == Len(Chain(variant))

\* The digests returned so far for the probe message.
Digests == { e.d : e \in seen }

\* The primitives of the steps whose close has run, in the order they ran.
PrimsRun == [ i \in 1..(Len(trace) \div 3) |-> trace[3 * i].prim ]

\* The successors of primitive P in a sequence of primitives.
Successors(ps, P) == { ps[i + 1] : i \in { n \in 1..(Len(ps) - 1) : ps[n] = P } }

Positions(ps, P) == { n \in 1..Len(ps) : ps[n] = P }

\* C1: every invocation of Hash9 on the same message returns the same
\* digest, whatever ran before it or between two of them: the set of digests
\* returned for the probe message never holds two values.
C1_Deterministic == Cardinality(Digests) <= 1

\* The probe message was hashed, then another message, then the probe again.
C1_Witness == phase = 3 /\ pc = "done" /\ Cardinality(Digests) = 1

\* C2: the steps run in the order 1..k, each exactly once; only step 1 is
\* handed the caller's range; the update of every later step i reads the
\* hash[] element that the close of step i-1 wrote, hash[i-2], and its close
\* writes hash[i-1].
C2_ChainOrder ==
  /\ \A n \in 1..Len(trace) :
       LET e == trace[n]
       IN  /\ e.step = ((n - 1) \div 3) + 1
           /\ e.op = << "init", "update", "close" >>[((n - 1) % 3) + 1]
           /\ e.op = "update" /\ e.step = 1 =>
                e.buf = -1 /\ e.ptr \in { "pbegin", "pblank" }
           /\ e.op = "update" /\ e.step > 1 =>
                /\ e.ptr = "hash"
                /\ e.buf = e.step - 2
                /\ trace[n - 2].op = "close"
                /\ trace[n - 2].step = e.step - 1
                /\ trace[n - 2].buf = e.buf
           /\ e.op = "close" => e.buf = e.step - 1
  /\ pc \in { "return", "done" } => Len(trace) = 3 * K

C2_Witness == pc = "done" /\ variant = "long" /\ Len(trace) = 72 /\ Len(msg) = 2

\* C3: the value Hash9 returns is the first 32 bytes of the 64-byte element
\* the close of the last step wrote, unchanged.
C3_FinalTruncation ==
  pc = "done" =>
    LET last == hash[trace[Len(trace)].buf]
    IN  /\ Len(last) = 64
        /\ ret = [ i \in 1..32 |-> last[i] ]

\* A call has returned, and the element before the last starts differently.
C3_Witness ==
  /\ pc = "done"
  /\ Len(ret) = 32
  /\ trim256(hash[trace[Len(trace)].buf - 1]) # ret

\* C4: the 5-step build runs Panama, Whirlpool, Keccak-512, Panama,
\* CubeHash-512, in this order: 5 steps, 4 primitives, Panama the only one
\* run twice, followed once by Whirlpool and once by CubeHash-512.
C4_ShortChain ==
  variant = "short" /\ pc = "done" =>
    /\ PrimsRun = << "panama", "whirlpool", "keccak512", "panama", "cubehash512" >>
    /\ \A i \in 1..5 : trace[3 * i - 2].prim = PrimsRun[i]
                       /\ trace[3 * i - 1].prim = PrimsRun[i]
    /\ Cardinality(Range(PrimsRun)) = 4
    /\ { P \in Range(PrimsRun) : Cardinality(Positions(PrimsRun, P)) > 1 }
         = { "panama" }
    /\ Successors(PrimsRun, "panama") = { "whirlpool", "cubehash512" }

C4_Witness == variant = "short" /\ pc = "done" /\ Len(PrimsRun) = 5

\* C5: the 24-step build runs its primitives in the order the claim lists,
\* and a primitive run at several positions has a different successor at
\* each of them.
C5_LongChain ==
  variant = "long" /\ pc = "done" =>
    /\ PrimsRun =
         << "whirlpool1", "bmw512", "groestl512", "echo512", "hamsi512",
            "fugue512", "shabal512", "jh512", "keccak512", "skein512",
            "luffa512", "tiger", "cubehash512", "panama", "sha512",
            "shavite512", "simd512", "blake512", "ripemd160", "haval256_5",
            "cubehash384", "whirlpool1", "tiger2", "whirlpool" >>
    /\ \A i \in 1..24 : trace[3 * i - 2].prim = PrimsRun[i]
                        /\ trace[3 * i - 1].prim = PrimsRun[i]
    /\ \A P \in Range(PrimsRun) :
         LET at == Positions(PrimsRun, P) \ { 24 }
         IN  Cardinality(Successors(PrimsRun, P)) = Cardinality(at)
             /\ (24 \in Positions(PrimsRun, P) =>
                   Cardinality(Positions(PrimsRun, P)) = 1)

\* The 24-step build has returned; Whirlpool-1 ran twice.
C5_Witness ==
  /\ variant = "long" /\ pc = "done"
  /\ Cardinality(Positions(PrimsRun, "whirlpool1")) = 2

\* C6: on the empty range step 1 runs init, an update of length 0 on pblank
\* that leaves the context as init made it, and close; every later step
\* runs; the digest returned is the same on every such call.
C6_EmptyInput ==
  msg = << >> /\ pc # "idle" =>
    /\ Len(trace) >= 2 =>
         /\ trace[1].op = "init" /\ trace[1].step = 1
         /\ trace[2].op = "update" /\ trace[2].step = 1
         /\ trace[2].len = 0 /\ trace[2].ptr = "pblank"
    /\ Len(trace) >= 3 => trace[3].op = "close" /\ trace[3].step = 1
    /\ pc = "close" /\ step = 1 =>
         ctx[Chain(variant)[1].ctx] = PrimInit(Chain(variant)[1].prim)
    /\ pc = "done" =>
         /\ Len(trace) = 3 * K
         /\ Len(ret) = 32
         /\ probe = << >> => Digests = { ret }

\* The empty message was hashed twice, another message in between.
C6_Witness == msg = << >> /\ probe = << >> /\ pc = "done" /\ phase = 3

\* C7: a call of Hash9, for every message, reaches its return, and has
\* then executed the three operations of every step, in order, each once.
C7_Terminates ==
  (pc = "init" /\ step = 1) ~>
    (pc = "done" /\ Len(trace) = 3 * K
       /\ \A n \in 1..Len(trace) : trace[n].step = ((n - 1) \div 3) + 1)

C7_Witness == pc = "done" /\ Len(msg) = MaxLen /\ Len(trace) = 3 * K

\* C8: after warm-up, a context a clone macro wrote holds what the init of
\* its primitive writes, and the same update and close give the same digest
\* on both.
C8_CacheEquivalence ==
  clone.name # "none" /\ clone.warm =>
    LET P == LocalPrim(variant, clone.ctx)
    IN  /\ clone.val = PrimInit(P)
        /\ \A m \in Messages :
             PrimDigest(P, PrimUpdate(P, clone.val, m, Len(m)))
               = PrimDigest(P, PrimUpdate(P, PrimInit(P), m, Len(m)))

\* C9: once fillz has run, no operation changes any of the objects the
\* clone macros read.
C9_SnapshotsImmutable == [][warmed => z' = z]_vars

\* After warm-up Hash9 has returned a digest and a clone macro has run.
C9_Witness ==
  /\ warmed
  /\ clone.name # "none" /\ clone.warm
  /\ \E e \in seen : e.warm

\* C10: the digest of a message is the same before and after warm-up: two
\* calls that differ in the state of the z_* objects return equal digests.
C10_CacheUnobservable ==
  \A e1, e2 \in seen : e1.warm # e2.warm => e1.d = e2.d

\* The probe message was hashed once before and once after warm-up.
C10_Witness == \E e1, e2 \in seen : e1.warm /\ ~e2.warm

\* ------------------------------------------------------------ warm-up, threads
\* Number of init lines of the body of fillz.
FillzLen == Len(FillzBody(variant))

\* A context of P while P's init is storing into it: the first half of the
\* state words hold their initial constants, the other fields still hold
\* what they held.
PartInit(P, old) ==
  [ old EXCEPT !.s = [ i \in 1..Len(old.s) |->
                         IF 2 * i <= Len(old.s) THEN PrimInit(P).s[i]
                         ELSE old.s[i] ] ]

\* A thread reaches an expansion of fillz(): nothing guards the body.
FillzEnter(t) ==
  /\ Outside
  /\ fpc[t] = 0
  /\ fpc' = [ fpc EXCEPT ![t] = 1 ]
  /\ runs' = runs + 1
  /\ clone' = NoClone
  /\ UNCHANGED << variant, z, warmed, pc, step, msg, ctx, hash, ret, trace,
                  probe, seen, phase, concVars, apiVars, havalVars >>

\* Thread t inside fillz: the init of line (fpc[t] + 1) \div 2 stores into the
\* object the line names, first a part of it, then the rest.
FillzWrite(t) ==
  /\ fpc[t] \in 1..(2 * FillzLen)
  /\ \E f \in { FillzBody(variant)[(fpc[t] + 1) \div 2] } :
       z' = [ z EXCEPT ![f.z] = IF fpc[t] % 2 = 1
                                 THEN PartInit(f.prim, z[f.z])
                                 ELSE PrimInit(f.prim) ]
  /\ fpc' = [ fpc EXCEPT ![t] = fpc[t] + 1 ]
  /\ warmed' = (warmed \/ fpc[t] = 2 * FillzLen)
  /\ clone' = NoClone
  /\ UNCHANGED << variant, pc, step, msg, ctx, hash, ret, trace, probe, seen,
                  phase, runs, concVars, apiVars, havalVars >>

\* Thread t, not inside fillz itself, expands a clone macro on a context of
\* its own.
WarmClone(t, i) ==
  LET m == ZMacros(variant)[i]
  IN  /\ fpc[t] \notin 1..(2 * FillzLen)
      /\ clone' = [ name |-> m.name, ctx |-> m.ctx, val |-> z[m.z],
                    warm |-> warmed ]
      /\ UNCHANGED << variant, z, warmed, pc, step, msg, ctx, hash, ret,
                      trace, probe, seen, phase, fpc, runs, concVars, apiVars, havalVars >>

WarmNext ==
  \E t \in Threads :
    \/ FillzEnter(t)
    \/ FillzWrite(t)
    \/ \E i \in 1..Len(ZMacros(variant)) : WarmClone(t, i)

WarmInit == Init /\ probe = << >>

WarmSpec == WarmInit /\ [][WarmNext]_vars

\* C11: when several threads trigger warm-up, the body of fillz is entered
\* once only, and a context copied by a clone macro is never one that an
\* init has written only in part: it holds either what the object held
\* before warm-up or what the init of its primitive writes.
C11_WarmUpOnce ==
  /\ runs <= 1
  /\ clone.name # "none" =>
       clone.val \in { ZeroCtx(LocalPrim(variant, clone.ctx)),
                       PrimInit(LocalPrim(variant, clone.ctx)) }

\* ------------------------------------------------------------ Hash9, threads
\* The state the threads' calls of Hash9 leave alone.
seqVars ==
  << variant, z, warmed, pc, step, msg, ctx, hash, ret, trace, clone, probe,
     seen, phase, warmVars, apiVars, havalVars >>

\* Hash9 with its contexts and hash[] in static storage: every call uses the
\* one instance.
FrameStatic(t) == 1

\* The instance of the automatic objects (ctx_*, hash[]) that the call of
\* thread t uses: automatic storage is one instance per call.
Frame(t) == t

\* Entry of Hash9 in thread t.
CallT(t, m) ==
  /\ tpc[t] = "idle"
  /\ tmsg' = [ tmsg EXCEPT ![t] = m ]
  /\ tctx' = [ tctx EXCEPT ![Frame(t)] = NewCtx(variant) ]
  /\ thash' = [ thash EXCEPT ![Frame(t)] = NewHash(variant) ]
  /\ tpc' = [ tpc EXCEPT ![t] = "init" ]
  /\ tstep' = [ tstep EXCEPT ![t] = 1 ]
  /\ overlap' = (overlap \/ \E u \in Threads : tpc[u] \notin { "idle", "done" })
  /\ UNCHANGED << seqVars, tret >>

\* sph_P_init(&ctx_P) of the current step of thread t.
InitT(t) ==
  LET S == Chain(variant)[tstep[t]]
  IN  /\ tpc[t] = "init"
      /\ tctx' = [ tctx EXCEPT ![Frame(t)][S.ctx] = PrimInit(S.prim) ]
      /\ tpc' = [ tpc EXCEPT ![t] = "update" ]
      /\ UNCHANGED << seqVars, tstep, tmsg, thash, tret, overlap >>

\* sph_P(&ctx_P, data, len) of the current step of thread t.
UpdateT(t) ==
  LET S   == Chain(variant)[tstep[t]]
      p   == IF S.src = -1 THEN FirstPtr(tmsg[t]) ELSE "hash"
      len == IF S.src = -1 THEN FirstLen(tmsg[t]) ELSE S.len
      old == tctx[Frame(t)][S.ctx]
  IN  /\ tpc[t] = "update"
      /\ \E j \in IF old = Uninit THEN Stale ELSE { 0 } :
           \E c \in { ReadCtx(S.prim, old, j) },
              data \in { Deref(p, tmsg[t], thash[Frame(t)], S) } :
             tctx' = [ tctx EXCEPT ![Frame(t)][S.ctx] =
                                      PrimUpdate(S.prim, c, data, len) ]
      /\ tpc' = [ tpc EXCEPT ![t] = "close" ]
      /\ UNCHANGED << seqVars, tstep, tmsg, thash, tret, overlap >>

\* sph_P_close(&ctx_P, &hash[dst]) of the current step of thread t.
CloseT(t) ==
  LET S   == Chain(variant)[tstep[t]]
      old == tctx[Frame(t)][S.ctx]
  IN  /\ tpc[t] = "close"
      /\ \E j \in IF old = Uninit THEN Stale ELSE { 0 } :
           \E d \in { PrimDigest(S.prim, ReadCtx(S.prim, old, j)) } :
             thash' = [ thash EXCEPT ![Frame(t)][S.dst] =
                                       Written(thash[Frame(t)][S.dst], d) ]
      /\ tctx' = [ tctx EXCEPT ![Frame(t)][S.ctx] = PrimReset(S.prim, old) ]
      /\ IF tstep[t] = Len(Chain(variant))
         THEN tpc' = [ tpc EXCEPT ![t] = "return" ] /\ tstep' = tstep
         ELSE /\ tpc' = [ tpc EXCEPT ![t] = "init" ]
              /\ tstep' = [ tstep EXCEPT ![t] = tstep[t] + 1 ]
      /\ UNCHANGED << seqVars, tmsg, tret, overlap >>

\* return hash[N-1].trim256() in thread t.
ReturnT(t) ==
  /\ tpc[t] = "return"
  /\ tret' = [ tret EXCEPT
                 ![t] = trim256(thash[Frame(t)][ReturnIndex(variant)]) ]
  /\ tpc' = [ tpc EXCEPT ![t] = "done" ]
  /\ UNCHANGED << seqVars, tstep, tmsg, tctx, thash, overlap >>

ConcNext ==
  \E t \in Threads :
    \/ \E m \in Messages : CallT(t, m)
    \/ InitT(t)
    \/ UpdateT(t)
    \/ CloseT(t)
    \/ ReturnT(t)

ConcInit == Init /\ probe = << >>

ConcSpec == ConcInit /\ [][ConcNext]_vars

\* hash[] after the first k steps of Hash9 on message m, run alone.
RECURSIVE RunChain(_, _, _)
RunChain(v, m, k) ==
  IF k = 0 THEN NewHash(v)
  ELSE CHOOSE r \in
         { [ h EXCEPT ![Chain(v)[k].dst] =
               Written(h[Chain(v)[k].dst],
                       PrimDigest(Chain(v)[k].prim,
                         PrimUpdate(Chain(v)[k].prim, PrimInit(Chain(v)[k].prim),
                           IF Chain(v)[k].src = -1
                           THEN Deref(FirstPtr(m), m, h, Chain(v)[k])
                           ELSE h[Chain(v)[k].src],
                           IF Chain(v)[k].src = -1
                           THEN FirstLen(m) ELSE Chain(v)[k].len))) ] :
           h \in { RunChain(v, m, k - 1) } } : TRUE

\* The digest Hash9 returns for m when no other call runs.
Hash9Alone ==
  [ v \in Variants, m \in Messages |->
      trim256(RunChain(v, m, Len(Chain(v)))[ReturnIndex(v)]) ]

\* C12: in every interleaving of the calls of the threads, a call returns
\* the digest it returns when run alone; a thread that has not called has
\* its contexts and hash[] untouched by the calls of the others; and no
\* step of a call changes a z_* object.
C12_Independent ==
  /\ \A t \in Threads :
       /\ tpc[t] = "done" => tret[t] = Hash9Alone[variant, tmsg[t]]
       /\ tpc[t] = "idle" =>
            tctx[t] = NewCtx(variant) /\ thash[t] = NewHash(variant)
  /\ z = [ n \in ZNames(variant) |-> ZeroCtx(ZPrim(variant, n)) ]

\* Two calls on different messages ran interleaved: the second was entered
\* before the first returned, and both have returned.
C12_Witness ==
  /\ overlap
  /\ \A t \in Threads : tpc[t] = "done"
  /\ tmsg[1] # tmsg[2]
  /\ tret[1] # tret[2]

\* ------------------------------------------------------------ primitive interface
\* most closes on one context
MaxCycles == 2

\* The primitives whose interface functions a caller may use.
ApiPrims == PrimSet \cup HavalNames

\* The extra bits (ub, n) handed to addbits_and_close.
ExtraBits == { << 128, 1 >>, << 254, 7 >> }

\* What the caller's output buffer holds before a close has written to it.
OutBuf == [ i \in 1..WideLen |-> (37 * i + 11) % 256 ]

\* The state outside the interface calls.
hdrVars ==
  << variant, z, warmed, pc, step, msg, ctx, hash, ret, trace, clone, probe,
     seen, phase, warmVars, concVars, havalVars >>

\* The name a function of the interface is defined under.  For HAVAL it is
\* what the API macro pastes: sph_haval ## xxx ## _ ## y, then _init,
\* nothing, _close, or addbits_and_close.
ApiDefName(P, kind) ==
  "sph_" \o P \o
    CASE kind = "init" -> "_init"
      [] kind = "update" -> ""
      [] kind = "close" -> "_close"
      [] OTHER -> IF IsHaval(P) THEN "addbits_and_close"
                  ELSE "_addbits_and_close"

\* The core the function hands the call to: haval_init, haval ## y, or
\* haval ## y ## _close.
ApiCore(P, kind) ==
  IF ~IsHaval(P) THEN ""
  ELSE CASE kind = "init" -> "haval_init"
         [] kind = "update" -> "haval" \o ToString(HavalOf[P][2])
         [] OTHER -> "haval" \o ToString(HavalOf[P][2]) \o "_close"

\* A caller declares a context of P and an output buffer.
ApiDeclare(P) ==
  /\ aprim = "none"
  /\ aprim' = P
  /\ aout' = OutBuf
  /\ UNCHANGED << hdrVars, acx, aprev, ahist, awritten, afinal, abits, aop,
                  aname, acore, afrom, azero, acycles >>

\* sph_P_init(cc)
ApiInit ==
  /\ aprim # "none"
  /\ aprev' = acx
  /\ acx' = PrimInit(aprim)
  /\ ahist' = << >>
  /\ aop' = "init"
  /\ aname' = ApiDefName(aprim, "init")
  /\ acore' = ApiCore(aprim, "init")
  /\ afrom' = "init"
  /\ azero' = FALSE
  /\ UNCHANGED << hdrVars, aprim, aout, awritten, afinal, abits, acycles >>

\* The bytes absorbed in the running cycle.
CycleHist == IF aop \in { "close", "addbits" } THEN << >> ELSE ahist

\* The bytes found at the data pointer of an update of n bytes: the next n
\* bytes of the message, or for n = 0 the byte of pblank.
ApiData(n) ==
  IF n = 0 THEN pblank
  ELSE [ i \in 1..n |-> Message(MaxLen)[Len(CycleHist) + i] ]

\* sph_P(cc, data, len) that reads the first byte at data before it tests
\* len.
ApiUpdateReadsFirst(n) ==
  /\ acx # Uninit
  /\ n \in 0..(MaxLen - Len(CycleHist))
  /\ aprev' = acx
  /\ acx' = PrimUpdate(aprim, acx, ApiData(n), IF n = 0 THEN 1 ELSE n)
  /\ ahist' = IF n = 0 THEN CycleHist ELSE CycleHist \o ApiData(n)
  /\ aop' = IF n = 0 THEN "update0" ELSE "update"
  /\ aname' = ApiDefName(aprim, "update")
  /\ acore' = ApiCore(aprim, "update")
  /\ afrom' = IF aop \in { "close", "addbits" } THEN "close" ELSE afrom
  /\ azero' = IF aop \in { "close", "addbits" } THEN n = 0 ELSE (azero \/ n = 0)
  /\ UNCHANGED << hdrVars, aprim, aout, awritten, afinal, abits, acycles >>

\* sph_P(cc, data, len)
ApiUpdate(n) ==
  /\ acx # Uninit
  /\ n \in 0..(MaxLen - Len(CycleHist))
  /\ aprev' = acx
  /\ acx' = PrimUpdate(aprim, acx, ApiData(n), n)
  /\ ahist' = IF n = 0 THEN CycleHist ELSE CycleHist \o ApiData(n)
  /\ aop' = IF n = 0 THEN "update0" ELSE "update"
  /\ aname' = ApiDefName(aprim, "update")
  /\ acore' = ApiCore(aprim, "update")
  /\ afrom' = IF aop \in { "close", "addbits" } THEN "close" ELSE afrom
  /\ azero' = IF aop \in { "close", "addbits" } THEN n = 0 ELSE (azero \/ n = 0)
  /\ UNCHANGED << hdrVars, aprim, aout, awritten, afinal, abits, acycles >>

\* The close core without its last statement, the call of init.
CloseCoreNoReset(kind, ub, n) ==
  /\ acx # Uninit
  /\ acycles < MaxCycles
  /\ aprev' = acx
  /\ \E f \in { PaddedBits(aprim, acx, ub, n) } :
       /\ afinal' = f
       /\ \E d \in { DigestBytes(aprim, f) } :
            /\ aout' = Written(aout, d)
            /\ awritten' = Len(d)
  /\ acx' = PaddedBits(aprim, acx, ub, n)
  /\ ahist' = CycleHist
  /\ abits' = << ub, n >>
  /\ aop' = IF kind = "close" THEN "close" ELSE "addbits"
  /\ aname' = ApiDefName(aprim, kind)
  /\ acore' = ApiCore(aprim, kind)
  /\ afrom' = IF aop \in { "close", "addbits" } THEN "close" ELSE afrom
  /\ azero' = IF aop \in { "close", "addbits" } THEN FALSE ELSE azero
  /\ acycles' = acycles + 1
  /\ UNCHANGED << hdrVars, aprim >>

\* The close core of P, for HAVAL haval ## y ## _close(cc, ub, n, dst): the
\* n extra bits and the padding are absorbed, the digest is written at dst,
\* and the context is initialised again.
CloseCore(kind, ub, n) ==
  /\ acx # Uninit
  /\ acycles < MaxCycles
  /\ aprev' = acx
  /\ \E f \in { PaddedBits(aprim, acx, ub, n) } :
       /\ afinal' = f
       /\ \E d \in { DigestBytes(aprim, f) } :
            /\ aout' = Written(aout, d)
            /\ awritten' = Len(d)
  /\ acx' = PrimReset(aprim, acx)
  /\ ahist' = CycleHist
  /\ abits' = << ub, n >>
  /\ aop' = IF kind = "close" THEN "close" ELSE "addbits"
  /\ aname' = ApiDefName(aprim, kind)
  /\ acore' = ApiCore(aprim, kind)
  /\ afrom' = IF aop \in { "close", "addbits" } THEN "close" ELSE afrom
  /\ azero' = IF aop \in { "close", "addbits" } THEN FALSE ELSE azero
  /\ acycles' = acycles + 1
  /\ UNCHANGED << hdrVars, aprim >>

\* sph_P_close(cc, dst): the close core with no extra bits.
ApiClose == CloseCore("close", 0, 0)

\* The function the macro defines for addbits_and_close(cc, ub, n, dst).
ApiAddbitsClose(ub, n) == CloseCore("addbits", ub, n)

ApiNext ==
  \/ \E P \in ApiPrims : ApiDeclare(P)
  \/ ApiInit
  \/ \E n \in 0..MaxLen : ApiUpdate(n)
  \/ ApiClose
  \/ \E b \in ExtraBits : ApiAddbitsClose(b[1], b[2])

ApiStart == Init /\ variant = "short" /\ probe = << >>

ApiSpec == ApiStart /\ [][ApiNext]_vars

\* The digest of data with extra bits (ub, n) on a context of P that init
\* has just written.
FreshDigest(P, data, ub, n) ==
  DigestBytes(P, PaddedBits(P, PrimUpdate(P, PrimInit(P), data, Len(data)),
                            ub, n))

\* C13: after close or addbits_and_close the context holds what init
\* writes, and the digest the close wrote is the digest of the cycle's bytes
\* on a freshly initialised context, whether the cycle began with an init
\* or on the context as the previous close left it.
C13_CloseResets ==
  aop \in { "close", "addbits" } =>
    /\ acx = PrimInit(aprim)
    /\ SubSeq(aout, 1, DigestSize(aprim))
         = FreshDigest(aprim, ahist, abits[1], abits[2])

\* A second cycle that began without init has been closed.
C13_Witness ==
  /\ aop \in { "close", "addbits" }
  /\ afrom = "close"
  /\ acycles = MaxCycles
  /\ ahist # << >>

\* C14: an update of length 0 leaves the whole context as it was, and a
\* cycle in which zero-length updates ran closes with the digest of the
\* cycle's bytes alone.
C14_ZeroLengthNoOp ==
  /\ aop = "update0" => acx = aprev
  /\ aop \in { "close", "addbits" } /\ azero =>
       SubSeq(aout, 1, awritten)
         = FreshDigest(aprim, ahist, abits[1], abits[2])

\* A cycle with bytes absorbed and a zero-length update has been closed.
C14_Witness ==
  /\ aop \in { "close", "addbits" }
  /\ azero
  /\ ahist # << >>

\* C15: the init of each of the 15 HAVAL variants leaves s0..s7 at
\* 0x243F6A88, 0x85A308D3, 0x13198A2E, 0x03707344, 0xA4093822, 0x299F31D0,
\* 0x082EFA98, 0xEC4E6C89, the byte count at zero, olen at xxx/32 (in 4..8)
\* and passes at y, whatever the context held before; a second init changes
\* nothing.
C15_HavalInit ==
  aop = "init" /\ IsHaval(aprim) =>
    /\ acx.s = << 9279, 27272, 34211, 2259, 4889, 35374, 880, 29508,
                  41993, 14370, 10655, 12752, 2094, 64152, 60494, 27785 >>
    /\ acx.count = 0
    /\ acx.par = << HavalOf[aprim][1] \div 32, HavalOf[aprim][2] >>
    /\ acx.par[1] \in 4..8
    /\ acx.par[2] \in 3..5
    /\ acore = "haval_init"
    /\ (aprev # Uninit /\ aprev.count = 0 /\ aprev.s = acx.s) => aprev = acx

\* A HAVAL init ran on a context that had absorbed bytes.
C15_Witness ==
  /\ aop = "init"
  /\ IsHaval(aprim)
  /\ aprev # Uninit
  /\ aprev.count > 0

\* C16: the close of HAVAL-xxx/y writes xxx/8 bytes (16, 20, 24, 28 or 32),
\* that is 4*olen bytes, from offset 0 of the buffer: word k of the output
\* at offset 4k, least significant byte first; every byte of the buffer
\* after them is left as it was.
C16_HavalOutputSize ==
  aop \in { "close", "addbits" } /\ IsHaval(aprim) =>
    /\ awritten = HavalOf[aprim][1] \div 8
    /\ awritten \in { 16, 20, 24, 28, 32 }
    /\ awritten = 4 * afinal.par[1]
    /\ Len(aout) = Len(OutBuf)
    /\ \A j \in (awritten + 1)..Len(aout) : aout[j] = OutBuf[j]
    /\ \A k \in 0..((awritten \div 4) - 1) :
         /\ aout[4 * k + 1] = haval_words(afinal)[k + 1][2] % 256
         /\ aout[4 * k + 2] = haval_words(afinal)[k + 1][2] \div 256
         /\ aout[4 * k + 3] = haval_words(afinal)[k + 1][1] % 256
         /\ aout[4 * k + 4] = haval_words(afinal)[k + 1][1] \div 256

\* HAVAL-160/4 has closed a cycle with bytes absorbed.
C16_Witness ==
  /\ aop = "close"
  /\ aprim = "haval160_4"
  /\ ahist # << >>
  /\ awritten = 20

\* ------------------------------------------------------------ the chain again
\* C17: the update of every step after the first absorbs 64 bytes, the
\* whole of the previous hash[] element, whatever the length of the
\* caller's range; the update of step 1 absorbs (pend - pbegin) * sizeof
\* bytes of the range.
C17_FixedWidthInner ==
  \A n \in 1..Len(trace) :
    trace[n].op = "update" =>
      IF trace[n].step = 1
      THEN trace[n].len = Len(msg) * SizeofElem /\ trace[n].buf = -1
      ELSE /\ trace[n].len = 64
           /\ trace[n].len = Len(hash[trace[n].buf])
           /\ trace[n].ptr = "hash"

\* The 24-step chain has returned for a message of two bytes.
C17_Witness ==
  /\ pc = "done"
  /\ variant = "long"
  /\ Len(msg) = 2
  /\ trace[2].len = 2
  /\ trace[71].len = 64

\* The primitives the specification enumerates.
EnumeratedPrims ==
  { "sha512", "ripemd160", "tiger", "tiger2", "whirlpool", "whirlpool1",
    "blake512", "bmw512", "cubehash512", "cubehash384", "echo512",
    "fugue512", "groestl512", "hamsi512", "haval256_5", "jh512", "keccak512",
    "luffa512", "panama", "shabal512", "shavite512", "simd512" }

\* C18, as stated: every operation of every step of both chains is an
\* operation of a primitive of the enumerated set.
C18_ClosedPrimitiveSet ==
  \A n \in 1..Len(trace) : trace[n].prim \in EnumeratedPrims

\* C18, amended: every operation of every step of both chains is an
\* operation of a primitive of the enumerated set or of Skein-512, which
\* step 10 of the 24-step chain runs.
C18_ClosedPrimitiveSetWithSkein ==
  /\ \A n \in 1..Len(trace) :
       trace[n].prim \in EnumeratedPrims \cup { "skein512" }
  /\ \A n \in 1..Len(trace) :
       trace[n].prim = "skein512" => variant = "long" /\ trace[n].step = 10

\* The 24-step chain has returned; Tiger2, CubeHash-384 and Skein-512 ran.
C18_Witness ==
  /\ pc = "done"
  /\ variant = "long"
  /\ { "tiger2", "cubehash384", "skein512" } \subseteq Range(PrimsRun)

\* C19: once fillz has run, every object a clone macro reads, and the object
\* of every primitive a step of the chain uses, was written during fillz by
\* the init of its primitive.
C19_CacheCoverage ==
  warmed =>
    /\ \A m \in Range(ZMacros(variant)) :
         /\ \E f \in Range(FillzBody(variant)) :
              f.z = m.z /\ f.prim = LocalPrim(variant, m.ctx)
         /\ z[m.z] = PrimInit(LocalPrim(variant, m.ctx))
    /\ \A S \in Range(Chain(variant)) :
         \E f \in Range(FillzBody(variant)) :
           f.prim = S.prim /\ f.z \in { m.z : m \in Range(ZMacros(variant)) }

\* ------------------------------------------------------------ HAVAL names
\* The four kinds of interface function.
Kinds == { "init", "update", "close", "addbits" }

\* The name the header documents for a function of HAVAL-xxx/y.
DocName(P, kind) ==
  "sph_" \o P \o
    CASE kind = "init" -> "_init"
      [] kind = "update" -> ""
      [] kind = "close" -> "_close"
      [] OTHER -> "_addbits_and_close"

\* The name the header declares at the place where it documents that
\* function: in the section of HAVAL-160/4 the declaration after the
\* comment of addbits_and_close names sph_haval160_3_addbits_and_close.
HeaderDecl(P, kind) ==
  IF P = "haval160_4" /\ kind = "addbits"
  THEN "sph_haval160_3_addbits_and_close"
  ELSE DocName(P, kind)

\* All function names sph_haval.h declares for the 15 variants.
HeaderDecls == { HeaderDecl(P, k) : P \in HavalNames, k \in Kinds }

\* All function names the instances of the API macro define.
ApiDefs == { ApiDefName(P, k) : P \in HavalNames, k \in Kinds }

\* The kind of the last call.
LastKind == IF aop = "update0" THEN "update" ELSE aop

\* C20: each of the four functions the header documents for a HAVAL variant
\* is declared in the header and defined by the API macro under that name;
\* the function that ran is one of them, and update and close of a variant
\* with y passes hand the call to havaly and havaly_close.
C20_HavalInterfaceComplete ==
  IsHaval(aprim) =>
    /\ \A k \in Kinds :
         DocName(aprim, k) \in HeaderDecls /\ DocName(aprim, k) \in ApiDefs
    /\ aop # "none" =>
         /\ aname = DocName(aprim, LastKind)
         /\ aname \in HeaderDecls
         /\ LastKind = "update" =>
              acore = "haval" \o ToString(HavalOf[aprim][2])
         /\ LastKind \in { "close", "addbits" } =>
              acore = "haval" \o ToString(HavalOf[aprim][2]) \o "_close"

\* ------------------------------------------------------------ the buffers
\* The close entries of the trace that wrote hash[b].
ClosesOf(b) == { n \in 1..Len(trace) : trace[n].op = "close" /\ trace[n].buf = b }

\* The update entries of the trace that read hash[b].
UpdatesOf(b) ==
  { n \in 1..Len(trace) : trace[n].op = "update" /\ trace[n].buf = b }

\* C24 (as stated): for every step i > 1, every byte the update absorbs
\* was written by the close of step i - 1: that close wrote hash[i - 2] and
\* its digest is at least as long as the range the update reads, so no
\* absorbed byte is initial content of the buffer.
C24_InnerStepsReadOnlyDigest ==
  \A n \in 1..Len(trace) :
    (trace[n].op = "update" /\ trace[n].step > 1) =>
      /\ n > 2
      /\ trace[n - 2].op = "close"
      /\ trace[n - 2].step = trace[n].step - 1
      /\ trace[n - 2].buf = trace[n].buf
      /\ trace[n - 2].len >= trace[n].len

\* C24 (amended): for every step i > 1 the update absorbs the 64 bytes of
\* hash[i - 2]; the close of step i - 1 wrote the first bytes of that
\* element, as many as its digest has, and the bytes behind the digest are
\* the zero bytes the construction of hash[] left there.
C24_InnerStepsReadPreviousBuffer ==
  \A n \in 1..Len(trace) :
    (trace[n].op = "update" /\ trace[n].step > 1) =>
      /\ n > 2
      /\ trace[n - 2].op = "close"
      /\ trace[n - 2].step = trace[n].step - 1
      /\ trace[n - 2].buf = trace[n].buf
      /\ trace[n - 2].len = DigestSize(trace[n - 2].prim)
      /\ trace[n - 2].len <= trace[n].len
      /\ ClosesOf(trace[n].buf) = { n - 2 }
      /\ \A k \in (trace[n - 2].len + 1)..trace[n].len :
           hash[trace[n].buf][k] = uint512[k]

\* Both chain definitions have run an update on an element whose close
\* wrote fewer than 64 bytes, and the 24-step one also on a full element.
C24_Witness ==
  /\ pc = "done"
  /\ msg # << >>
  /\ \E n \in 3..Len(trace) :
       trace[n].op = "update" /\ trace[n - 2].len < trace[n].len
  /\ variant = "long" =>
       \E n \in 3..Len(trace) :
         trace[n].op = "update" /\ trace[n - 2].len = trace[n].len

\* C25: at every step the digest of the step's primitive has at most the
\* 64 bytes of the element of hash[] its close writes to: every element
\* keeps its 64 bytes, and an element no close was given is still as
\* constructed.
C25_BuffersNotUndersized ==
  /\ \A S \in Range(Chain(variant)) : DigestSize(S.prim) <= WideLen
  /\ \A i \in DOMAIN hash : Len(hash[i]) = WideLen
  /\ \A n \in 1..Len(trace) :
       trace[n].op = "close" => trace[n].len <= Len(uint512)
  /\ \A i \in DOMAIN hash : ClosesOf(i) = { } => hash[i] = uint512

\* A close of a 64-byte digest has written its element and the next element
\* is still as constructed.
C25_Witness ==
  /\ pc = "init"
  /\ step > 1
  /\ trace[Len(trace)].op = "close"
  /\ trace[Len(trace)].len = WideLen
  /\ hash[trace[Len(trace)].buf] # uint512
  /\ hash[trace[Len(trace)].buf + 1] = uint512

\* C26: every step performs init, one update and close, in that order, on
\* the context of its primitive; a context is updated only right after an
\* init on it and closed only right after that update, also when two steps
\* use the same context.
C26_ProtocolOrder ==
  /\ \A n \in 1..Len(trace) :
       /\ trace[n].op = << "init", "update", "close" >>[((n - 1) % 3) + 1]
       /\ trace[n].step = ((n - 1) \div 3) + 1
       /\ trace[n].ctx = Chain(variant)[trace[n].step].ctx
       /\ trace[n].prim = LocalPrim(variant, trace[n].ctx)
       /\ trace[n].op # "init" =>
            trace[n - 1].ctx = trace[n].ctx /\ trace[n - 1].step = trace[n].step
  /\ pc = "update" => ctx[Chain(variant)[step].ctx] = PrimInit(Chain(variant)[step].prim)
  /\ pc = "close" => ctx[Chain(variant)[step].ctx] # Uninit

\* A call has returned in which one context served two steps.
C26_Witness ==
  /\ pc = "done"
  /\ \E a, b \in 1..Len(trace) :
       /\ a + 3 <= b
       /\ trace[a].op = "init"
       /\ trace[b].op = "init"
       /\ trace[a].ctx = trace[b].ctx

\* C27: a call with k steps has the k buffers hash[0..k-1]; hash[b] is
\* written by one close, that of step b + 1, read only after that, by one
\* update, that of step b + 2, and not written after it was read; the last
\* buffer is read by the truncation alone.
C27_SingleAssignment ==
  /\ DOMAIN hash = 0..(K - 1)
  /\ ReturnIndex(variant) = K - 1
  /\ \A b \in DOMAIN hash :
       /\ Cardinality(ClosesOf(b)) <= 1
       /\ Cardinality(UpdatesOf(b)) <= 1
       /\ \A n \in ClosesOf(b) : trace[n].step = b + 1
       /\ \A n \in UpdatesOf(b) :
            /\ trace[n].step = b + 2
            /\ \E c \in ClosesOf(b) : c < n
            /\ \A c \in ClosesOf(b) : c < n
       /\ step > b + 1 => Cardinality(ClosesOf(b)) = 1
       /\ (step > b + 2 \/ (step = b + 2 /\ pc = "close")) =>
            Cardinality(UpdatesOf(b)) = 1
  /\ UpdatesOf(K - 1) = { }
  /\ pc = "done" =>
       /\ \A b \in DOMAIN hash : Cardinality(ClosesOf(b)) = 1
       /\ ret = trim256(hash[K - 1])

\* The 24-step chain has returned with every buffer written.
C27_Witness ==
  /\ pc = "done"
  /\ variant = "long"
  /\ \A b \in 0..23 : hash[b] # uint512
  /\ Cardinality(UpdatesOf(22)) = 1

\* ------------------------------------------------------------ cloning a context
\* The state of hashblock.h and of the callers of the interface.
baseVars ==
  << variant, z, warmed, pc, step, msg, ctx, hash, ret, trace, clone, probe,
     seen, phase, warmVars, concVars, apiVars >>

\* Everything but the contexts of the cloning caller.
libVars == << baseVars, probeVars, coreVars >>

\* sph_haval_context orig, copy; of one HAVAL variant.
CloneDeclare(P) ==
  /\ kprim = "none"
  /\ kprim' = P
  /\ UNCHANGED << libVars, kmem, kref, khist, kdig, kcopied, kat >>

\* sph_havalxxx_y_init(&orig)
CloneInit ==
  /\ kprim # "none"
  /\ kmem[kref["orig"]] = Uninit
  /\ kmem' = [ kmem EXCEPT ![kref["orig"]] = PrimInit(kprim) ]
  /\ UNCHANGED << libVars, kprim, kref, khist, kdig, kcopied, kat >>

\* A context of the caller is in a running computation.
Running(x) ==
  /\ kmem[kref[x]] # Uninit
  /\ kdig[x] = << >>
  /\ x = "copy" => kcopied

\* The copy as a copy of a reference: copy names the object orig names.
CloneCopyShallow ==
  /\ Running("orig")
  /\ ~kcopied
  /\ kref' = [ kref EXCEPT !["copy"] = kref["orig"] ]
  /\ khist' = [ khist EXCEPT !["copy"] = khist["orig"] ]
  /\ kcopied' = TRUE
  /\ kat' = Len(khist["orig"])
  /\ UNCHANGED << libVars, kprim, kmem, kdig >>

\* memcpy(&copy, &orig, sizeof orig): every member of the structure (buf,
\* s0..s7, olen, passes, count) is held in the structure itself.
CloneCopy ==
  /\ Running("orig")
  /\ ~kcopied
  /\ kmem' = [ kmem EXCEPT ![kref["copy"]] = kmem[kref["orig"]] ]
  /\ khist' = [ khist EXCEPT !["copy"] = khist["orig"] ]
  /\ kcopied' = TRUE
  /\ kat' = Len(khist["orig"])
  /\ UNCHANGED << libVars, kprim, kref, kdig >>

\* sph_havalxxx_y(&x, data, n): the next n bytes of the message.
CloneUpdate(x, n) ==
  /\ Running(x)
  /\ n \in 1..(MaxLen - Len(khist[x]))
  /\ \E data \in { [ i \in 1..n |-> Message(MaxLen)[Len(khist[x]) + i] ] } :
       /\ kmem' = [ kmem EXCEPT
                      ![kref[x]] = PrimUpdate(kprim, kmem[kref[x]], data, n) ]
       /\ khist' = [ khist EXCEPT ![x] = khist[x] \o data ]
  /\ UNCHANGED << libVars, kprim, kref, kdig, kcopied, kat >>

\* sph_havalxxx_y_close(&x, dst)
CloneClose(x) ==
  /\ Running(x)
  /\ kdig' = [ kdig EXCEPT ![x] = PrimDigest(kprim, kmem[kref[x]]) ]
  /\ kmem' = [ kmem EXCEPT ![kref[x]] = PrimReset(kprim, kmem[kref[x]]) ]
  /\ UNCHANGED << libVars, kprim, kref, khist, kcopied, kat >>

CloneNext ==
  \/ \E P \in HavalNames : CloneDeclare(P)
  \/ CloneInit
  \/ CloneCopy
  \/ \E x \in CloneNames, n \in 1..MaxLen : CloneUpdate(x, n)
  \/ \E x \in CloneNames : CloneClose(x)

CloneStart == Init /\ variant = "short" /\ probe = << >>

CloneSpec == CloneStart /\ [][CloneNext]_vars

\* C21: a copy of a HAVAL context made between init and close carries the
\* whole computation state: the state of each of the two contexts is the
\* one its own updates lead to, whatever was done to the other since the
\* copy; each digest is the digest of the bytes its context absorbed, and
\* the same updates on both give the same digest.
C21_CloneByCopy ==
  /\ \A x \in CloneNames :
       /\ Running(x) =>
            kmem[kref[x]] =
              PrimUpdate(kprim, PrimInit(kprim), khist[x], Len(khist[x]))
       /\ kdig[x] # << >> => kdig[x] = FreshDigest(kprim, khist[x], 0, 0)
  /\ (kdig["orig"] # << >> /\ kdig["copy"] # << >>
        /\ khist["orig"] = khist["copy"]) => kdig["orig"] = kdig["copy"]

\* The copy was made after the first byte; both contexts then absorbed the
\* second byte and were closed.
C21_Witness ==
  /\ kcopied
  /\ kat = 1
  /\ khist["orig"] = Message(MaxLen)
  /\ khist["copy"] = Message(MaxLen)
  /\ kdig["orig"] # << >>
  /\ kdig["orig"] = kdig["copy"]

\* ------------------------------------------------------------ HAVAL, the rounds
\* x ^ y
Xor32(x, y) ==
  << x[1] + y[1] - 2 * And16(x[1], y[1], 16),
     x[2] + y[2] - 2 * And16(x[2], y[2], 16) >>

\* ~x
Not32(x) == << Half - 1 - x[1], Half - 1 - x[2] >>

\* SPH_ROTR32(x, n), 0 < n < 32
ROTR32(x, n) == ROTL32(x, 32 - n)

\* F4 with & where the macro has | between x4 and x6.
F4AndForOr(x6, x5, x4, x3, x2, x1, x0) ==
  Xor32(Xor32(Xor32(
    And32(x3, Xor32(Xor32(And32(x1, x2), And32(x4, x6)), x5)),
    And32(x4, Xor32(Xor32(Xor32(And32(Not32(x2), x5), x1), x6), x0))),
    And32(x2, x6)), x0)

\* The boolean functions as the macros compute them.
F1(x6, x5, x4, x3, x2, x1, x0) ==
  Xor32(Xor32(Xor32(And32(x1, Xor32(x0, x4)), And32(x2, x5)), And32(x3, x6)),
        x0)

F2(x6, x5, x4, x3, x2, x1, x0) ==
  Xor32(Xor32(
    And32(x2, Xor32(Xor32(Xor32(And32(x1, Not32(x3)), And32(x4, x5)), x6), x0)),
    And32(x4, Xor32(x1, x5))),
    Xor32(And32(x3, x5), x0))

F3(x6, x5, x4, x3, x2, x1, x0) ==
  Xor32(Xor32(Xor32(
    And32(x3, Xor32(Xor32(And32(x1, x2), x6), x0)),
    And32(x1, x4)), And32(x2, x5)), x0)

F4(x6, x5, x4, x3, x2, x1, x0) ==
  Xor32(Xor32(Xor32(
    And32(x3, Xor32(Xor32(And32(x1, x2), Or32(x4, x6)), x5)),
    And32(x4, Xor32(Xor32(Xor32(And32(Not32(x2), x5), x1), x6), x0))),
    And32(x2, x6)), x0)

F5(x6, x5, x4, x3, x2, x1, x0) ==
  Xor32(Xor32(Xor32(
    And32(x0, Not32(Xor32(And32(And32(x1, x2), x3), x5))),
    And32(x1, x4)), And32(x2, x5)), And32(x3, x6))

\* Fp by its number.
F(p, x6, x5, x4, x3, x2, x1, x0) ==
  CASE p = 1 -> F1(x6, x5, x4, x3, x2, x1, x0)
    [] p = 2 -> F2(x6, x5, x4, x3, x2, x1, x0)
    [] p = 3 -> F3(x6, x5, x4, x3, x2, x1, x0)
    [] p = 4 -> F4(x6, x5, x4, x3, x2, x1, x0)
    [] p = 5 -> F5(x6, x5, x4, x3, x2, x1, x0)

\* The exclusive or of the words of a sequence.
RECURSIVE XorAll(_)
XorAll(ws) ==
  IF Len(ws) = 1 THEN ws[1] ELSE Xor32(ws[1], XorAll(Tail(ws)))

\* The basic definitions from the reference paper, as the comments above
\* the macros give them.
F1_basic(x6, x5, x4, x3, x2, x1, x0) ==
  XorAll(<< And32(x1, x4), And32(x2, x5), And32(x3, x6), And32(x0, x1), x0 >>)

F2_basic(x6, x5, x4, x3, x2, x1, x0) ==
  XorAll(<< And32(And32(x1, x2), x3), And32(And32(x2, x4), x5),
            And32(x1, x2), And32(x1, x4), And32(x2, x6), And32(x3, x5),
            And32(x4, x5), And32(x0, x2), x0 >>)

F3_basic(x6, x5, x4, x3, x2, x1, x0) ==
  XorAll(<< And32(And32(x1, x2), x3), And32(x1, x4), And32(x2, x5),
            And32(x3, x6), And32(x0, x3), x0 >>)

F4_basic(x6, x5, x4, x3, x2, x1, x0) ==
  XorAll(<< And32(And32(x1, x2), x3), And32(And32(x2, x4), x5),
            And32(And32(x3, x4), x6), And32(x1, x4), And32(x2, x6),
            And32(x3, x4), And32(x3, x5), And32(x3, x6), And32(x4, x5),
            And32(x4, x6), And32(x0, x4), x0 >>)

F5_basic(x6, x5, x4, x3, x2, x1, x0) ==
  XorAll(<< And32(x1, x4), And32(x2, x5), And32(x3, x6),
            And32(And32(And32(x0, x1), x2), x3), And32(x0, x5), x0 >>)

F_basic(p, x6, x5, x4, x3, x2, x1, x0) ==
  CASE p = 1 -> F1_basic(x6, x5, x4, x3, x2, x1, x0)
    [] p = 2 -> F2_basic(x6, x5, x4, x3, x2, x1, x0)
    [] p = 3 -> F3_basic(x6, x5, x4, x3, x2, x1, x0)
    [] p = 4 -> F4_basic(x6, x5, x4, x3, x2, x1, x0)
    [] p = 5 -> F5_basic(x6, x5, x4, x3, x2, x1, x0)

\* FPn_p(x6, .., x0) is Fp on a permutation of its arguments: the indices of
\* the arguments handed to Fp as its x6, x5, .., x0.
FP3 ==
  << << 1, 0, 3, 5, 6, 2, 4 >>,
     << 4, 2, 1, 0, 5, 3, 6 >>,
     << 6, 1, 2, 3, 4, 5, 0 >> >>

FP4 ==
  << << 2, 6, 1, 4, 5, 3, 0 >>,
     << 3, 5, 2, 0, 1, 6, 4 >>,
     << 1, 4, 3, 6, 0, 2, 5 >>,
     << 6, 4, 0, 5, 2, 1, 3 >> >>

FP5 ==
  << << 3, 4, 1, 0, 5, 2, 6 >>,
     << 6, 2, 1, 0, 3, 4, 5 >>,
     << 2, 6, 0, 4, 3, 1, 5 >>,
     << 1, 5, 3, 2, 0, 4, 6 >>,
     << 2, 5, 0, 6, 4, 3, 1 >> >>

MP2 ==
  <<  5, 14, 26, 18, 11, 28,  7, 16,
      0, 23, 20, 22,  1, 10,  4,  8,
     30,  3, 21,  9, 17, 24, 29,  6,
     19, 12, 15, 13,  2, 25, 31, 27 >>

MP3 ==
  << 19,  9,  4, 20, 28, 17,  8, 22,
     29, 14, 25, 12, 24, 30, 16, 26,
     31, 15,  7,  3,  1,  0, 18, 27,
     13,  6, 21, 10, 23, 11,  5,  2 >>

MP4 ==
  << 24,  4,  0, 14,  2,  7, 28, 23,
     26,  6, 30, 20, 18, 25, 19,  3,
     22, 11, 31, 21,  8, 27, 12,  9,
      1, 29,  5, 15, 17, 10, 16, 13 >>

MP5 ==
  << 27,  3, 21, 26, 17, 11, 20, 29,
     19,  0, 12,  7, 13,  8, 31, 10,
      5,  9, 14, 30, 18,  6, 28, 24,
      2, 23, 16, 22,  4,  1, 25, 15 >>

RK2 ==
  << << 17704, 8678 >>, << 14544, 4983 >>, << 48724, 26319 >>, << 13545, 3180 >>,
     << 49324, 10679 >>, << 51580, 20701 >>, << 16260, 54709 >>, << 46407, 2327 >>,
     << 37398, 54745 >>, << 35193, 64283 >>, << 53553, 2982 >>, << 39135, 46508 >>,
     << 12285, 29403 >>, << 53274, 57271 >>, << 47329, 45037 >>, << 27174, 32406 >>,
     << 47740, 36933 >>, << 61740, 32665 >>, << 9377, 39239 >>, << 45969, 27895 >>,
     << 2049, 62178 >>, << 34190, 64534 >>, << 25449, 8408 >>, << 29015, 20073 >>,
     << 42072, 65187 >>, << 62611, 15742 >>, << 3477, 29839 >>, << 29326, 46680 >>,
     << 29067, 52568 >>, << 33301, 19182 >>, << 31572, 42013 >>, << 49754, 22965 >> >>

RK3 ==
  << << 39984, 54585 >>, << 10994, 24595 >>, << 50641, 45091 >>, << 10336, 34288 >>,
     << 51777, 31000 >>, << 47323, 14575 >>, << 36473, 56496 >>, << 24634, 6158 >>,
     << 27806, 3723 >>, << 45086, 35390 >>, << 55061, 30657 >>, << 48433, 19239 >>,
     << 30895, 12250 >>, << 21856, 23648 >>, << 58965, 9715 >>, << 43605, 43924 >>,
     << 22344, 39010 >>, << 25576, 5184 >>, << 21962, 14698 >>, << 10923, 4278 >>,
     << 46284, 23604 >>, << 4417, 59598 >>, << 41300, 34479 >>, << 31858, 59795 >>,
     << 46062, 5137 >>, << 25455, 48170 >>, << 11177, 50525 >>, << 29720, 12790 >>,
     << 52828, 15894 >>, << 39815, 37662 >>, << 45014, 47667 >>, << 27684, 53084 >> >>

RK4 ==
  << << 31282, 21377 >>, << 10389, 34423 >>, << 15247, 18584 >>, << 27467, 47535 >>,
     << 50367, 59419 >>, << 26152, 8595 >>, << 25048, 2508 >>, << 64289, 43409 >>,
     << 18556, 44128 >>, << 24044, 32818 >>, << 61316, 23901 >>, << 59781, 30129 >>,
     << 56358, 8962 >>, << 60261, 7048 >>, << 9097, 16001 >>, << 54166, 44229 >>,
     << 3949, 28659 >>, << 33780, 16953 >>, << 11787, 17538 >>, << 42116, 8196 >>,
     << 27080, 61514 >>, << 40479, 39774 >>, << 8646, 26690 >>, << 63209, 27802 >>,
     << 26380, 40033 >>, << 43987, 35056 >>, << 27217, 41170 >>, << 55380, 12136 >>,
     << 38415, 42792 >>, << 43857, 13219 >>, << 28399, 2924 >>, << 4986, 15332 >> >>

RK5 ==
  << << 47675, 61520 >>, << 32507, 10904 >>, << 41457, 25885 >>, << 14767, 374 >>,
     << 26314, 22846 >>, << 33347, 3720 >>, << 36078, 34329 >>, << 17775, 40884 >>,
     << 32132, 42435 >>, << 15243, 24254 >>, << 57455, 30168 >>, << 34241, 8307 >>,
     << 16410, 17567 >>, << 22209, 27302 >>, << 20179, 43618 >>, << 13887, 30470 >>,
     << 7166, 57202 >>, << 17051, 573 >>, << 14288, 55076 >>, << 53258, 4680 >>,
     << 56079, 60115 >>, << 18929, 49307 >>, << 1875, 29385 >>, << 32921, 7035 >>,
     << 9684, 31192 >>, << 63208, 57079 >>, << 58366, 20506 >>, << 46713, 19515 >>,
     << 38764, 57533 >>, << 1216, 1722 >>, << 49577, 20406 >>, << 16543, 24772 >> >>

\* The body of the loop of PASS1, small footprint: the registers each STEP
\* is given, x7 first, and the offset k of in(pass_count + k).
PASS1_loop ==
  << [x |-> << 7, 6, 5, 4, 3, 2, 1, 0 >>, k |-> 0],
     [x |-> << 6, 5, 4, 3, 2, 1, 0, 7 >>, k |-> 1],
     [x |-> << 5, 4, 3, 2, 1, 0, 7, 6 >>, k |-> 2],
     [x |-> << 4, 3, 2, 1, 0, 7, 6, 5 >>, k |-> 3],
     [x |-> << 3, 2, 1, 0, 7, 6, 5, 4 >>, k |-> 4],
     [x |-> << 2, 1, 0, 7, 6, 5, 4, 3 >>, k |-> 5],
     [x |-> << 1, 0, 7, 6, 5, 4, 3, 2 >>, k |-> 6],
     [x |-> << 0, 7, 6, 5, 4, 3, 2, 1 >>, k |-> 7] >>

\* The body of the loop of PASSG: the offsets of MP ## p[pass_count + k] and
\* RK ## p[pass_count + rk].
PASSG_loop ==
  << [x |-> << 7, 6, 5, 4, 3, 2, 1, 0 >>, k |-> 0, rk |-> 0],
     [x |-> << 6, 5, 4, 3, 2, 1, 0, 7 >>, k |-> 1, rk |-> 1],
     [x |-> << 5, 4, 3, 2, 1, 0, 7, 6 >>, k |-> 2, rk |-> 2],
     [x |-> << 4, 3, 2, 1, 0, 7, 6, 5 >>, k |-> 3, rk |-> 3],
     [x |-> << 3, 2, 1, 0, 7, 6, 5, 4 >>, k |-> 4, rk |-> 4],
     [x |-> << 2, 1, 0, 7, 6, 5, 4, 3 >>, k |-> 5, rk |-> 5],
     [x |-> << 1, 0, 7, 6, 5, 4, 3, 2 >>, k |-> 6, rk |-> 6],
     [x |-> << 0, 7, 6, 5, 4, 3, 2, 1 >>, k |-> 7, rk |-> 7] >>

\* PASS1 unrolled, one entry per STEP.
PASS1 ==
  << [x |-> << 7, 6, 5, 4, 3, 2, 1, 0 >>, w |->  0, c |-> << 0, 0 >>],
     [x |-> << 6, 5, 4, 3, 2, 1, 0, 7 >>, w |->  1, c |-> << 0, 0 >>],
     [x |-> << 5, 4, 3, 2, 1, 0, 7, 6 >>, w |->  2, c |-> << 0, 0 >>],
     [x |-> << 4, 3, 2, 1, 0, 7, 6, 5 >>, w |->  3, c |-> << 0, 0 >>],
     [x |-> << 3, 2, 1, 0, 7, 6, 5, 4 >>, w |->  4, c |-> << 0, 0 >>],
     [x |-> << 2, 1, 0, 7, 6, 5, 4, 3 >>, w |->  5, c |-> << 0, 0 >>],
     [x |-> << 1, 0, 7, 6, 5, 4, 3, 2 >>, w |->  6, c |-> << 0, 0 >>],
     [x |-> << 0, 7, 6, 5, 4, 3, 2, 1 >>, w |->  7, c |-> << 0, 0 >>],
     [x |-> << 7, 6, 5, 4, 3, 2, 1, 0 >>, w |->  8, c |-> << 0, 0 >>],
     [x |-> << 6, 5, 4, 3, 2, 1, 0, 7 >>, w |->  9, c |-> << 0, 0 >>],
     [x |-> << 5, 4, 3, 2, 1, 0, 7, 6 >>, w |-> 10, c |-> << 0, 0 >>],
     [x |-> << 4, 3, 2, 1, 0, 7, 6, 5 >>, w |-> 11, c |-> << 0, 0 >>],
     [x |-> << 3, 2, 1, 0, 7, 6, 5, 4 >>, w |-> 12, c |-> << 0, 0 >>],
     [x |-> << 2, 1, 0, 7, 6, 5, 4, 3 >>, w |-> 13, c |-> << 0, 0 >>],
     [x |-> << 1, 0, 7, 6, 5, 4, 3, 2 >>, w |-> 14, c |-> << 0, 0 >>],
     [x |-> << 0, 7, 6, 5, 4, 3, 2, 1 >>, w |-> 15, c |-> << 0, 0 >>],
     [x |-> << 7, 6, 5, 4, 3, 2, 1, 0 >>, w |-> 16, c |-> << 0, 0 >>],
     [x |-> << 6, 5, 4, 3, 2, 1, 0, 7 >>, w |-> 17, c |-> << 0, 0 >>],
     [x |-> << 5, 4, 3, 2, 1, 0, 7, 6 >>, w |-> 18, c |-> << 0, 0 >>],
     [x |-> << 4, 3, 2, 1, 0, 7, 6, 5 >>, w |-> 19, c |-> << 0, 0 >>],
     [x |-> << 3, 2, 1, 0, 7, 6, 5, 4 >>, w |-> 20, c |-> << 0, 0 >>],
     [x |-> << 2, 1, 0, 7, 6, 5, 4, 3 >>, w |-> 21, c |-> << 0, 0 >>],
     [x |-> << 1, 0, 7, 6, 5, 4, 3, 2 >>, w |-> 22, c |-> << 0, 0 >>],
     [x |-> << 0, 7, 6, 5, 4, 3, 2, 1 >>, w |-> 23, c |-> << 0, 0 >>],
     [x |-> << 7, 6, 5, 4, 3, 2, 1, 0 >>, w |-> 24, c |-> << 0, 0 >>],
     [x |-> << 6, 5, 4, 3, 2, 1, 0, 7 >>, w |-> 25, c |-> << 0, 0 >>],
     [x |-> << 5, 4, 3, 2, 1, 0, 7, 6 >>, w |-> 26, c |-> << 0, 0 >>],
     [x |-> << 4, 3, 2, 1, 0, 7, 6, 5 >>, w |-> 27, c |-> << 0, 0 >>],
     [x |-> << 3, 2, 1, 0, 7, 6, 5, 4 >>, w |-> 28, c |-> << 0, 0 >>],
     [x |-> << 2, 1, 0, 7, 6, 5, 4, 3 >>, w |-> 29, c |-> << 0, 0 >>],
     [x |-> << 1, 0, 7, 6, 5, 4, 3, 2 >>, w |-> 30, c |-> << 0, 0 >>],
     [x |-> << 0, 7, 6, 5, 4, 3, 2, 1 >>, w |-> 31, c |-> << 0, 0 >>] >>

\* PASS2 unrolled, one entry per STEP.
PASS2 ==
  << [x |-> << 7, 6, 5, 4, 3, 2, 1, 0 >>, w |->  5, c |-> << 17704, 8678 >>],
     [x |-> << 6, 5, 4, 3, 2, 1, 0, 7 >>, w |-> 14, c |-> << 14544, 4983 >>],
     [x |-> << 5, 4, 3, 2, 1, 0, 7, 6 >>, w |-> 26, c |-> << 48724, 26319 >>],
     [x |-> << 4, 3, 2, 1, 0, 7, 6, 5 >>, w |-> 18, c |-> << 13545, 3180 >>],
     [x |-> << 3, 2, 1, 0, 7, 6, 5, 4 >>, w |-> 11, c |-> << 49324, 10679 >>],
     [x |-> << 2, 1, 0, 7, 6, 5, 4, 3 >>, w |-> 28, c |-> << 51580, 20701 >>],
     [x |-> << 1, 0, 7, 6, 5, 4, 3, 2 >>, w |->  7, c |-> << 16260, 54709 >>],
     [x |-> << 0, 7, 6, 5, 4, 3, 2, 1 >>, w |-> 16, c |-> << 46407, 2327 >>],
     [x |-> << 7, 6, 5, 4, 3, 2, 1, 0 >>, w |->  0, c |-> << 37398, 54745 >>],
     [x |-> << 6, 5, 4, 3, 2, 1, 0, 7 >>, w |-> 23, c |-> << 35193, 64283 >>],
     [x |-> << 5, 4, 3, 2, 1, 0, 7, 6 >>, w |-> 20, c |-> << 53553, 2982 >>],
     [x |-> << 4, 3, 2, 1, 0, 7, 6, 5 >>, w |-> 22, c |-> << 39135, 46508 >>],
     [x |-> << 3, 2, 1, 0, 7, 6, 5, 4 >>, w |->  1, c |-> << 12285, 29403 >>],
     [x |-> << 2, 1, 0, 7, 6, 5, 4, 3 >>, w |-> 10, c |-> << 53274, 57271 >>],
     [x |-> << 1, 0, 7, 6, 5, 4, 3, 2 >>, w |->  4, c |-> << 47329, 45037 >>],
     [x |-> << 0, 7, 6, 5, 4, 3, 2, 1 >>, w |->  8, c |-> << 27174, 32406 >>],
     [x |-> << 7, 6, 5, 4, 3, 2, 1, 0 >>, w |-> 30, c |-> << 47740, 36933 >>],
     [x |-> << 6, 5, 4, 3, 2, 1, 0, 7 >>, w |->  3, c |-> << 61740, 32665 >>],
     [x |-> << 5, 4, 3, 2, 1, 0, 7, 6 >>, w |-> 21, c |-> << 9377, 39239 >>],
     [x |-> << 4, 3, 2, 1, 0, 7, 6, 5 >>, w |->  9, c |-> << 45969, 27895 >>],
     [x |-> << 3, 2, 1, 0, 7, 6, 5, 4 >>, w |-> 17, c |-> << 2049, 62178 >>],
     [x |-> << 2, 1, 0, 7, 6, 5, 4, 3 >>, w |-> 24, c |-> << 34190, 64534 >>],
     [x |-> << 1, 0, 7, 6, 5, 4, 3, 2 >>, w |-> 29, c |-> << 25449, 8408 >>],
     [x |-> << 0, 7, 6, 5, 4, 3, 2, 1 >>, w |->  6, c |-> << 29015, 20073 >>],
     [x |-> << 7, 6, 5, 4, 3, 2, 1, 0 >>, w |-> 19, c |-> << 42072, 65187 >>],
     [x |-> << 6, 5, 4, 3, 2, 1, 0, 7 >>, w |-> 12, c |-> << 62611, 15742 >>],
     [x |-> << 5, 4, 3, 2, 1, 0, 7, 6 >>, w |-> 15, c |-> << 3477, 29839 >>],
     [x |-> << 4, 3, 2, 1, 0, 7, 6, 5 >>, w |-> 13, c |-> << 29326, 46680 >>],
     [x |-> << 3, 2, 1, 0, 7, 6, 5, 4 >>, w |->  2, c |-> << 29067, 52568 >>],
     [x |-> << 2, 1, 0, 7, 6, 5, 4, 3 >>, w |-> 25, c |-> << 33301, 19182 >>],
     [x |-> << 1, 0, 7, 6, 5, 4, 3, 2 >>, w |-> 31, c |-> << 31572, 42013 >>],
     [x |-> << 0, 7, 6, 5, 4, 3, 2, 1 >>, w |-> 27, c |-> << 49754, 22965 >>] >>

\* PASS3 unrolled, one entry per STEP.
PASS3 ==
  << [x |-> << 7, 6, 5, 4, 3, 2, 1, 0 >>, w |-> 19, c |-> << 39984, 54585 >>],
     [x |-> << 6, 5, 4, 3, 2, 1, 0, 7 >>, w |->  9, c |-> << 10994, 24595 >>],
     [x |-> << 5, 4, 3, 2, 1, 0, 7, 6 >>, w |->  4, c |-> << 50641, 45091 >>],
     [x |-> << 4, 3, 2, 1, 0, 7, 6, 5 >>, w |-> 20, c |-> << 10336, 34288 >>],
     [x |-> << 3, 2, 1, 0, 7, 6, 5, 4 >>, w |-> 28, c |-> << 51777, 31000 >>],
     [x |-> << 2, 1, 0, 7, 6, 5, 4, 3 >>, w |-> 17, c |-> << 47323, 14575 >>],
     [x |-> << 1, 0, 7, 6, 5, 4, 3, 2 >>, w |->  8, c |-> << 36473, 56496 >>],
     [x |-> << 0, 7, 6, 5, 4, 3, 2, 1 >>, w |-> 22, c |-> << 24634, 6158 >>],
     [x |-> << 7, 6, 5, 4, 3, 2, 1, 0 >>, w |-> 29, c |-> << 27806, 3723 >>],
     [x |-> << 6, 5, 4, 3, 2, 1, 0, 7 >>, w |-> 14, c |-> << 45086, 35390 >>],
     [x |-> << 5, 4, 3, 2, 1, 0, 7, 6 >>, w |-> 25, c |-> << 55061, 30657 >>],
     [x |-> << 4, 3, 2, 1, 0, 7, 6, 5 >>, w |-> 12, c |-> << 48433, 19239 >>],
     [x |-> << 3, 2, 1, 0, 7, 6, 5, 4 >>, w |-> 24, c |-> << 30895, 12250 >>],
     [x |-> << 2, 1, 0, 7, 6, 5, 4, 3 >>, w |-> 30, c |-> << 21856, 23648 >>],
     [x |-> << 1, 0, 7, 6, 5, 4, 3, 2 >>, w |-> 16, c |-> << 58965, 9715 >>],
     [x |-> << 0, 7, 6, 5, 4, 3, 2, 1 >>, w |-> 26, c |-> << 43605, 43924 >>],
     [x |-> << 7, 6, 5, 4, 3, 2, 1, 0 >>, w |-> 31, c |-> << 22344, 39010 >>],
     [x |-> << 6, 5, 4, 3, 2, 1, 0, 7 >>, w |-> 15, c |-> << 25576, 5184 >>],
     [x |-> << 5, 4, 3, 2, 1, 0, 7, 6 >>, w |->  7, c |-> << 21962, 14698 >>],
     [x |-> << 4, 3, 2, 1, 0, 7, 6, 5 >>, w |->  3, c |-> << 10923, 4278 >>],
     [x |-> << 3, 2, 1, 0, 7, 6, 5, 4 >>, w |->  1, c |-> << 46284, 23604 >>],
     [x |-> << 2, 1, 0, 7, 6, 5, 4, 3 >>, w |->  0, c |-> << 4417, 59598 >>],
     [x |-> << 1, 0, 7, 6, 5, 4, 3, 2 >>, w |-> 18, c |-> << 41300, 34479 >>],
     [x |-> << 0, 7, 6, 5, 4, 3, 2, 1 >>, w |-> 27, c |-> << 31858, 59795 >>],
     [x |-> << 7, 6, 5, 4, 3, 2, 1, 0 >>, w |-> 13, c |-> << 46062, 5137 >>],
     [x |-> << 6, 5, 4, 3, 2, 1, 0, 7 >>, w |->  6, c |-> << 25455, 48170 >>],
     [x |-> << 5, 4, 3, 2, 1, 0, 7, 6 >>, w |-> 21, c |-> << 11177, 50525 >>],
     [x |-> << 4, 3, 2, 1, 0, 7, 6, 5 >>, w |-> 10, c |-> << 29720, 12790 >>],
     [x |-> << 3, 2, 1, 0, 7, 6, 5, 4 >>, w |-> 23, c |-> << 52828, 15894 >>],
     [x |-> << 2, 1, 0, 7, 6, 5, 4, 3 >>, w |-> 11, c |-> << 39815, 37662 >>],
     [x |-> << 1, 0, 7, 6, 5, 4, 3, 2 >>, w |->  5, c |-> << 45014, 47667 >>],
     [x |-> << 0, 7, 6, 5, 4, 3, 2, 1 >>, w |->  2, c |-> << 27684, 53084 >>] >>

\* PASS4 unrolled, one entry per STEP.
PASS4 ==
  << [x |-> << 7, 6, 5, 4, 3, 2, 1, 0 >>, w |-> 24, c |-> << 31282, 21377 >>],
     [x |-> << 6, 5, 4, 3, 2, 1, 0, 7 >>, w |->  4, c |-> << 10389, 34423 >>],
     [x |-> << 5, 4, 3, 2, 1, 0, 7, 6 >>, w |->  0, c |-> << 15247, 18584 >>],
     [x |-> << 4, 3, 2, 1, 0, 7, 6, 5 >>, w |-> 14, c |-> << 27467, 47535 >>],
     [x |-> << 3, 2, 1, 0, 7, 6, 5, 4 >>, w |->  2, c |-> << 50367, 59419 >>],
     [x |-> << 2, 1, 0, 7, 6, 5, 4, 3 >>, w |->  7, c |-> << 26152, 8595 >>],
     [x |-> << 1, 0, 7, 6, 5, 4, 3, 2 >>, w |-> 28, c |-> << 25048, 2508 >>],
     [x |-> << 0, 7, 6, 5, 4, 3, 2, 1 >>, w |-> 23, c |-> << 64289, 43409 >>],
     [x |-> << 7, 6, 5, 4, 3, 2, 1, 0 >>, w |-> 26, c |-> << 18556, 44128 >>],
     [x |-> << 6, 5, 4, 3, 2, 1, 0, 7 >>, w |->  6, c |-> << 24044, 32818 >>],
     [x |-> << 5, 4, 3, 2, 1, 0, 7, 6 >>, w |-> 30, c |-> << 61316, 23901 >>],
     [x |-> << 4, 3, 2, 1, 0, 7, 6, 5 >>, w |-> 20, c |-> << 59781, 30129 >>],
     [x |-> << 3, 2, 1, 0, 7, 6, 5, 4 >>, w |-> 18, c |-> << 56358, 8962 >>],
     [x |-> << 2, 1, 0, 7, 6, 5, 4, 3 >>, w |-> 25, c |-> << 60261, 7048 >>],
     [x |-> << 1, 0, 7, 6, 5, 4, 3, 2 >>, w |-> 19, c |-> << 9097, 16001 >>],
     [x |-> << 0, 7, 6, 5, 4, 3, 2, 1 >>, w |->  3, c |-> << 54166, 44229 >>],
     [x |-> << 7, 6, 5, 4, 3, 2, 1, 0 >>, w |-> 22, c |-> << 3949, 28659 >>],
     [x |-> << 6, 5, 4, 3, 2, 1, 0, 7 >>, w |-> 11, c |-> << 33780, 16953 >>],
     [x |-> << 5, 4, 3, 2, 1, 0, 7, 6 >>, w |-> 31, c |-> << 11787, 17538 >>],
     [x |-> << 4, 3, 2, 1, 0, 7, 6, 5 >>, w |-> 21, c |-> << 42116, 8196 >>],
     [x |-> << 3, 2, 1, 0, 7, 6, 5, 4 >>, w |->  8, c |-> << 27080, 61514 >>],
     [x |-> << 2, 1, 0, 7, 6, 5, 4, 3 >>, w |-> 27, c |-> << 40479, 39774 >>],
     [x |-> << 1, 0, 7, 6, 5, 4, 3, 2 >>, w |-> 12, c |-> << 8646, 26690 >>],
     [x |-> << 0, 7, 6, 5, 4, 3, 2, 1 >>, w |->  9, c |-> << 63209, 27802 >>],
     [x |-> << 7, 6, 5, 4, 3, 2, 1, 0 >>, w |->  1, c |-> << 26380, 40033 >>],
     [x |-> << 6, 5, 4, 3, 2, 1, 0, 7 >>, w |-> 29, c |-> << 43987, 35056 >>],
     [x |-> << 5, 4, 3, 2, 1, 0, 7, 6 >>, w |->  5, c |-> << 27217, 41170 >>],
     [x |-> << 4, 3, 2, 1, 0, 7, 6, 5 >>, w |-> 15, c |-> << 55380, 12136 >>],
     [x |-> << 3, 2, 1, 0, 7, 6, 5, 4 >>, w |-> 17, c |-> << 38415, 42792 >>],
     [x |-> << 2, 1, 0, 7, 6, 5, 4, 3 >>, w |-> 10, c |-> << 43857, 13219 >>],
     [x |-> << 1, 0, 7, 6, 5, 4, 3, 2 >>, w |-> 16, c |-> << 28399, 2924 >>],
     [x |-> << 0, 7, 6, 5, 4, 3, 2, 1 >>, w |-> 13, c |-> << 4986, 15332 >>] >>

\* PASS5 unrolled, one entry per STEP.
PASS5 ==
  << [x |-> << 7, 6, 5, 4, 3, 2, 1, 0 >>, w |-> 27, c |-> << 47675, 61520 >>],
     [x |-> << 6, 5, 4, 3, 2, 1, 0, 7 >>, w |->  3, c |-> << 32507, 10904 >>],
     [x |-> << 5, 4, 3, 2, 1, 0, 7, 6 >>, w |-> 21, c |-> << 41457, 25885 >>],
     [x |-> << 4, 3, 2, 1, 0, 7, 6, 5 >>, w |-> 26, c |-> << 14767, 374 >>],
     [x |-> << 3, 2, 1, 0, 7, 6, 5, 4 >>, w |-> 17, c |-> << 26314, 22846 >>],
     [x |-> << 2, 1, 0, 7, 6, 5, 4, 3 >>, w |-> 11, c |-> << 33347, 3720 >>],
     [x |-> << 1, 0, 7, 6, 5, 4, 3, 2 >>, w |-> 20, c |-> << 36078, 34329 >>],
     [x |-> << 0, 7, 6, 5, 4, 3, 2, 1 >>, w |-> 29, c |-> << 17775, 40884 >>],
     [x |-> << 7, 6, 5, 4, 3, 2, 1, 0 >>, w |-> 19, c |-> << 32132, 42435 >>],
     [x |-> << 6, 5, 4, 3, 2, 1, 0, 7 >>, w |->  0, c |-> << 15243, 24254 >>],
     [x |-> << 5, 4, 3, 2, 1, 0, 7, 6 >>, w |-> 12, c |-> << 57455, 30168 >>],
     [x |-> << 4, 3, 2, 1, 0, 7, 6, 5 >>, w |->  7, c |-> << 34241, 8307 >>],
     [x |-> << 3, 2, 1, 0, 7, 6, 5, 4 >>, w |-> 13, c |-> << 16410, 17567 >>],
     [x |-> << 2, 1, 0, 7, 6, 5, 4, 3 >>, w |->  8, c |-> << 22209, 27302 >>],
     [x |-> << 1, 0, 7, 6, 5, 4, 3, 2 >>, w |-> 31, c |-> << 20179, 43618 >>],
     [x |-> << 0, 7, 6, 5, 4, 3, 2, 1 >>, w |-> 10, c |-> << 13887, 30470 >>],
     [x |-> << 7, 6, 5, 4, 3, 2, 1, 0 >>, w |->  5, c |-> << 7166, 57202 >>],
     [x |-> << 6, 5, 4, 3, 2, 1, 0, 7 >>, w |->  9, c |-> << 17051, 573 >>],
     [x |-> << 5, 4, 3, 2, 1, 0, 7, 6 >>, w |-> 14, c |-> << 14288, 55076 >>],
     [x |-> << 4, 3, 2, 1, 0, 7, 6, 5 >>, w |-> 30, c |-> << 53258, 4680 >>],
     [x |-> << 3, 2, 1, 0, 7, 6, 5, 4 >>, w |-> 18, c |-> << 56079, 60115 >>],
     [x |-> << 2, 1, 0, 7, 6, 5, 4, 3 >>, w |->  6, c |-> << 18929, 49307 >>],
     [x |-> << 1, 0, 7, 6, 5, 4, 3, 2 >>, w |-> 28, c |-> << 1875, 29385 >>],
     [x |-> << 0, 7, 6, 5, 4, 3, 2, 1 >>, w |-> 24, c |-> << 32921, 7035 >>],
     [x |-> << 7, 6, 5, 4, 3, 2, 1, 0 >>, w |->  2, c |-> << 9684, 31192 >>],
     [x |-> << 6, 5, 4, 3, 2, 1, 0, 7 >>, w |-> 23, c |-> << 63208, 57079 >>],
     [x |-> << 5, 4, 3, 2, 1, 0, 7, 6 >>, w |-> 16, c |-> << 58366, 20506 >>],
     [x |-> << 4, 3, 2, 1, 0, 7, 6, 5 >>, w |-> 22, c |-> << 46713, 19515 >>],
     [x |-> << 3, 2, 1, 0, 7, 6, 5, 4 >>, w |->  4, c |-> << 38764, 57533 >>],
     [x |-> << 2, 1, 0, 7, 6, 5, 4, 3 >>, w |->  1, c |-> << 1216, 1722 >>],
     [x |-> << 1, 0, 7, 6, 5, 4, 3, 2 >>, w |-> 25, c |-> << 49577, 20406 >>],
     [x |-> << 0, 7, 6, 5, 4, 3, 2, 1 >>, w |-> 15, c |-> << 16543, 24772 >>] >>

\* ------------------------------------------------------------ HAVAL, functions applied
Zero32 == << 0, 0 >>

Ones32 == << Half - 1, Half - 1 >>

\* Fp applied to arguments each of which has all its bits equal: the 32
\* bit positions all see the assignment bits[0..6] of x0..x6.
ApplyF(p, bits) ==
  /\ qkind = "none"
  /\ qkind' = "F"
  /\ qf' = p
  /\ qx' = [ i \in 0..6 |-> IF bits[i] = 1 THEN Ones32 ELSE Zero32 ]
  /\ qout' = F(p, qx'[6], qx'[5], qx'[4], qx'[3], qx'[2], qx'[1], qx'[0])
  /\ qc' = Uninit
  /\ qwords' = << >>
  /\ UNCHANGED << baseVars, cloneVars, coreVars >>

\* A context with output length olen whose state words are those of ws.
FoldCtx(olen, ws) ==
  [ s |-> [ i \in 1..16 |-> ws[(i + 1) \div 2][2 - (i % 2)] ],
    count |-> 0,
    par |-> << olen, 5 >> ]

\* State words all zero but for bit b of word sk.
UnitWords(k, b) ==
  [ i \in 1..8 |->
      IF i = k + 1
      THEN (IF b >= 16 THEN << 2 ^ (b - 16), 0 >> ELSE << 0, 2 ^ b >>)
      ELSE Zero32 ]

\* State words with many bits set, no two words equal.
FullWords(a) ==
  [ i \in 1..8 |-> << (40503 * i * a + 65000) % Half, (30011 * i + 977 * a) % Half >> ]

\* FullWords with the words that become output words cleared.
FoldedOnly(olen, ws) == [ i \in 1..8 |-> IF i <= olen THEN Zero32 ELSE ws[i] ]

\* The state words of a context.
WordsOf(c) == [ i \in 1..8 |-> Sw(c, i - 1) ]

\* haval_out applied to a context with one bit set in a word behind the
\* output words.
ApplyOutUnit(olen, k, b) ==
  /\ qkind = "none"
  /\ k >= olen
  /\ qkind' = "unit"
  /\ qc' = FoldCtx(olen, UnitWords(k, b))
  /\ qwords' = haval_words(qc')
  /\ qf' = 0
  /\ qx' = << k, b >>
  /\ qout' = << >>
  /\ UNCHANGED << baseVars, cloneVars, coreVars >>

\* haval_out applied to a context with all its words in use.
ApplyOutFull(olen, a) ==
  /\ qkind = "none"
  /\ qkind' = "full"
  /\ qc' = FoldCtx(olen, FullWords(a))
  /\ qwords' = haval_words(qc')
  /\ qf' = 0
  /\ qx' = << >>
  /\ qout' = << >>
  /\ UNCHANGED << baseVars, cloneVars, coreVars >>

ProbeNext ==
  \/ \E p \in 1..5, bits \in [ 0..6 -> { 0, 1 } ] : ApplyF(p, bits)
  \/ \E olen \in 4..8, k \in 4..7, b \in 0..31 : ApplyOutUnit(olen, k, b)
  \/ \E olen \in 4..8, a \in 1..2 : ApplyOutFull(olen, a)

ProbeStart == Init /\ variant = "short" /\ probe = << >>

ProbeSpec == ProbeStart /\ [][ProbeNext]_vars

\* C23: for every assignment of x0..x6 the word each of F1..F5 returns is
\* the word the basic definition of the reference paper gives.
C23_OptimisedEqualsBasic ==
  qkind = "F" =>
    qout = F_basic(qf, qx[6], qx[5], qx[4], qx[3], qx[2], qx[1], qx[0])

\* F4 was applied where x4 | x6 and x4 & x6 differ and x3 lets the
\* difference through.
C23_Witness ==
  /\ qkind = "F"
  /\ qf = 4
  /\ qx[3] = Ones32
  /\ qx[4] = Ones32
  /\ qx[6] = Zero32
  /\ qout \in { Zero32, Ones32 }

\* The number of bits set in a half.
RECURSIVE Bits16(_, _)
Bits16(a, n) == IF n = 0 THEN 0 ELSE (a % 2) + Bits16(a \div 2, n - 1)

Bits32(x) == Bits16(x[1], 16) + Bits16(x[2], 16)

\* C28: for olen = 8 the output words are s0..s7; for olen in 4..7 output
\* word i is s_i plus a word built from s_olen..s7 alone, and every bit of
\* every one of those words reaches exactly one output word, as one bit.
C28_OutputFold ==
  /\ qkind \in { "unit", "full" } =>
       /\ Len(qwords) = qc.par[1]
       /\ qc.par[1] = 8 => qwords = WordsOf(qc)
  /\ qkind = "unit" =>
       /\ Cardinality({ i \in 1..Len(qwords) : qwords[i] # Zero32 }) = 1
       /\ \A i \in 1..Len(qwords) :
            qwords[i] # Zero32 => Bits32(qwords[i]) = 1
  /\ qkind = "full" =>
       \A i \in 1..Len(qwords) :
         qwords[i] =
           Add32(Sw(qc, i - 1),
                 IF qc.par[1] = 8 THEN Zero32
                 ELSE haval_words(FoldCtx(qc.par[1],
                                          FoldedOnly(qc.par[1], WordsOf(qc))))[i])

\* haval_out has folded bit 18 of s7 into an output word of HAVAL-160, and
\* has been applied for every output length.
C28_Witness ==
  /\ qkind = "unit"
  /\ qc.par[1] = 5
  /\ qx = << 7, 18 >>
  /\ qwords[3] # Zero32

\* ------------------------------------------------------------ HAVAL, the compression function
\* The permutation of FPn_p.
FP(n, p) ==
  CASE n = 3 -> FP3[p]
    [] n = 4 -> FP4[p]
    [] n = 5 -> FP5[p]

MP(p) ==
  CASE p = 2 -> MP2
    [] p = 3 -> MP3
    [] p = 4 -> MP4
    [] p = 5 -> MP5

RK(p) ==
  CASE p = 2 -> RK2
    [] p = 3 -> RK3
    [] p = 4 -> RK4
    [] p = 5 -> RK5

\* Step j (0..31) of pass p in the small-footprint build: iteration
\* pass_count = 8 * (j \div 8) of the loop, STEP number j % 8 of its body.
SmallStep(p, j) ==
  LET pass_count == 8 * (j \div 8)
  IN  IF p = 1
      THEN [ x |-> PASS1_loop[(j % 8) + 1].x,
             w |-> pass_count + PASS1_loop[(j % 8) + 1].k,
             c |-> << 0, 0 >> ]
      ELSE [ x |-> PASSG_loop[(j % 8) + 1].x,
             w |-> MP(p)[pass_count + PASSG_loop[(j % 8) + 1].k + 1],
             c |-> RK(p)[pass_count + PASSG_loop[(j % 8) + 1].rk + 1] ]

\* Step j of pass p in the unrolled build.
UnrolledStep(p, j) ==
  CASE p = 1 -> PASS1[j + 1]
    [] p = 2 -> PASS2[j + 1]
    [] p = 3 -> PASS3[j + 1]
    [] p = 4 -> PASS4[j + 1]
    [] p = 5 -> PASS5[j + 1]

\* StepOf with the second step of pass 2 of the small-footprint build
\* reading word 5 again (MP2[1] = MP2[0]).
StepOfRepeatedWord(form, p, j) ==
  IF form = "small"
  THEN (IF p = 2 /\ j = 1 THEN [ SmallStep(p, j) EXCEPT !.w = 5 ]
        ELSE SmallStep(p, j))
  ELSE UnrolledStep(p, j)

\* StepOf with the first two constants of RK3 exchanged.
StepOfExchangedRK(form, p, j) ==
  IF form = "small"
  THEN (IF p = 3 /\ j \in { 0, 1 }
        THEN [ SmallStep(p, j) EXCEPT !.c = RK3[2 - j] ]
        ELSE SmallStep(p, j))
  ELSE UnrolledStep(p, j)

\* The arguments of STEP number j of pass p: the registers x7..x0, the
\* index of the input word and the step constant.
StepOf(form, p, j) ==
  IF form = "small" THEN SmallStep(p, j) ELSE UnrolledStep(p, j)

\* STEP(n, p, x7, .., x0, w, c) on the registers s (s[r + 1] is s_r): the
\* registers x names, x7 first.
STEP(n, p, s, x, w, c) ==
  LET q == FP(n, p)
      t == F(p, s[x[8 - q[1]] + 1], s[x[8 - q[2]] + 1], s[x[8 - q[3]] + 1],
             s[x[8 - q[4]] + 1], s[x[8 - q[5]] + 1], s[x[8 - q[6]] + 1],
             s[x[8 - q[7]] + 1])
  IN  [ s EXCEPT ![x[1] + 1] =
          Add32(Add32(Add32(ROTR32(t, 7), ROTR32(s[x[1] + 1], 11)), w), c) ]

\* COREn without its last pass.
CORE_short(n) == [ p \in 1..(n - 1) |-> p ]

\* COREn: the passes between SAVE_STATE and UPDATE_STATE, in their order.
CORE(n) ==
  CASE n = 3 -> << 1, 2, 3 >>
    [] n = 4 -> << 1, 2, 3, 4 >>
    [] n = 5 -> << 1, 2, 3, 4, 5 >>

\* Message blocks: 32 words, no two equal.
Block(a) ==
  [ i \in 1..32 |->
      << (40503 * i * a + 77) % Half, (30011 * i + 5 * a) % Half >> ]

CoreMsgs == { Block(1), Block(2) }

\* Values of val: the state haval_init writes, and another one.
CoreVals == { WordsOf(haval_init(8, 5)), FullWords(3) }

\* INMSG(i)
INMSG(i) == hmsg[i + 1]

\* sph_haval_N_comp(msg, val) is entered.
CompCall(n, m, v) ==
  /\ hpc \in { "idle", "done" }
  /\ hpc' = "RVAL"
  /\ hn' = n
  /\ hmsg' = m
  /\ hval' = [ f \in Forms |-> v ]
  /\ hval0' = v
  /\ hk' = 0
  /\ hj' = 0
  /\ hs' = << >>
  /\ hu' = << >>
  /\ hend' = << >>
  /\ hlast' = << >>
  /\ hwords' = [ f \in Forms |-> << >> ]
  /\ hregs' = [ f \in Forms |-> << >> ]
  /\ hpasses' = << >>
  /\ hsteps' = 0
  /\ UNCHANGED << baseVars, cloneVars, probeVars >>

\* RVAL: s0..s7 are read from val.
RVAL ==
  /\ hpc = "RVAL"
  /\ hs' = hval
  /\ hpc' = "SAVE"
  /\ UNCHANGED << baseVars, cloneVars, probeVars, hn, hk, hj, hmsg, hval,
                  hval0, hu, hend, hlast, hwords, hregs, hpasses, hsteps >>

\* SAVE_STATE: u0..u7 are set from s0..s7; control reaches the first pass.
SAVE_STATE ==
  /\ hpc = "SAVE"
  /\ hu' = hs
  /\ hpc' = "pass"
  /\ hk' = 1
  /\ hj' = 0
  /\ UNCHANGED << baseVars, cloneVars, probeVars, hn, hmsg, hval, hval0, hs,
                  hend, hlast, hwords, hregs, hpasses, hsteps >>

\* The next STEP of the running pass, in each of the two builds; after the
\* last STEP of a pass control reaches the next pass of COREn, or
\* UPDATE_STATE.
PassStep ==
  LET p == CORE(hn)[hk]
  IN  /\ hpc = "pass"
      /\ hs' = [ f \in Forms |->
                   STEP(hn, p, hs[f], StepOf(f, p, hj).x,
                        INMSG(StepOf(f, p, hj).w), StepOf(f, p, hj).c) ]
      /\ hlast' = [ f \in Forms |->
                      [ p |-> p, reg |-> StepOf(f, p, hj).x[1],
                        w |-> StepOf(f, p, hj).w, c |-> StepOf(f, p, hj).c ] ]
      /\ hwords' = [ f \in Forms |->
                       IF hj = 0 THEN << StepOf(f, p, hj).w >>
                       ELSE Append(hwords[f], StepOf(f, p, hj).w) ]
      /\ hregs' = [ f \in Forms |->
                      IF hj = 0 THEN << StepOf(f, p, hj).x[1] >>
                      ELSE Append(hregs[f], StepOf(f, p, hj).x[1]) ]
      /\ hsteps' = hsteps + 1
      /\ IF hj < 31
         THEN /\ hj' = hj + 1
              /\ UNCHANGED << hpc, hk, hpasses, hend >>
         ELSE /\ hj' = 0
              /\ hpasses' = Append(hpasses, p)
              /\ IF hk < Len(CORE(hn))
                 THEN hk' = hk + 1 /\ UNCHANGED << hpc, hend >>
                 ELSE hpc' = "UPDATE" /\ hend' = hs' /\ UNCHANGED hk
      /\ UNCHANGED << baseVars, cloneVars, probeVars, hn, hmsg, hval, hval0,
                      hu >>

\* UPDATE_STATE: s_i = SPH_T32(s_i + u_i).
UPDATE_STATE ==
  /\ hpc = "UPDATE"
  /\ hs' = [ f \in Forms |-> [ i \in 1..8 |-> Add32(hs[f][i], hu[f][i]) ] ]
  /\ hpc' = "WVAL"
  /\ UNCHANGED << baseVars, cloneVars, probeVars, hn, hk, hj, hmsg, hval,
                  hval0, hu, hend, hlast, hwords, hregs, hpasses, hsteps >>

\* WVAL: val is written from s0..s7, and the function returns.
WVAL ==
  /\ hpc = "WVAL"
  /\ hval' = hs
  /\ hpc' = "done"
  /\ UNCHANGED << baseVars, cloneVars, probeVars, hn, hk, hj, hmsg, hval0,
                  hs, hu, hend, hlast, hwords, hregs, hpasses, hsteps >>

CoreNext ==
  \/ \E n \in 3..5, m \in CoreMsgs, v \in CoreVals : CompCall(n, m, v)
  \/ RVAL
  \/ SAVE_STATE
  \/ PassStep
  \/ UPDATE_STATE
  \/ WVAL

CoreStart == Init /\ variant = "short" /\ probe = << >>

CoreSpec == CoreStart /\ [][CoreNext]_vars

\* The passes run so far are 1, 2, ... in order, val keeps the words of the
\* call until WVAL, and after WVAL it holds the feed-forward sums.
C22_Called ==
  /\ \A i \in 1..Len(hpasses) : hpasses[i] = i
  /\ hpc = "pass" => hsteps = 32 * Len(hpasses) + hj
  /\ hpc \in { "RVAL", "SAVE", "pass", "UPDATE", "WVAL" } =>
       \A f \in Forms : hval[f] = hval0
  /\ hpc \in { "UPDATE", "WVAL", "done" } =>
       /\ Len(hpasses) = hn
       /\ hsteps = 32 * hn
  /\ hpc = "done" =>
       \A f \in Forms :
         hval[f] = [ i \in 1..8 |-> Add32(hend[f][i], hval0[i]) ]

\* C22: sph_haval_N_comp runs the passes 1..N, in that order and once
\* each, on the eight words read from val, and then writes to val[i] the
\* sum modulo 2^32 of the register s_i the last pass left and the val[i] it
\* was called with; val is not written before that, msg keeps its words
\* while the function runs, and nothing outside the call is written.
C22_CompFeedForward ==
  /\ []C22_Called
  /\ [][hpc \notin { "idle", "done" } =>
          /\ hmsg' = hmsg
          /\ hn' = hn
          /\ UNCHANGED << baseVars, cloneVars, probeVars >>]_vars

\* sph_haval_4_comp has returned.
C22_Witness ==
  /\ hpc = "done"
  /\ hn = 4
  /\ hpasses = << 1, 2, 3, 4 >>
  /\ hsteps = 128
  /\ hval["unrolled"] # hend["unrolled"]
  /\ hval["unrolled"] # hval0

\* C29: a pass reads each of the 32 message words once, pass 1 in the
\* order 0..31 with the constant 0; it has 32 steps, step k writing
\* register s(7 - k mod 8), so each register is written four times.
C29_EachWordOnce ==
  \A f \in Forms :
    /\ Len(hwords[f]) <= 32
    /\ Len(hregs[f]) = Len(hwords[f])
    /\ \A a \in 1..Len(hwords[f]) :
         /\ hwords[f][a] \in 0..31
         /\ hregs[f][a] = 7 - ((a - 1) % 8)
         /\ \A b \in 1..Len(hwords[f]) : a # b => hwords[f][a] # hwords[f][b]
    /\ (hpc = "pass" /\ hj > 0) => Len(hwords[f]) = hj
    /\ Len(hpasses) > 0 /\ hj = 0 =>
         /\ { hwords[f][a] : a \in 1..Len(hwords[f]) } = 0..31
         /\ \A r \in 0..7 :
              Cardinality({ a \in 1..32 : hregs[f][a] = r }) = 4
    /\ hlast # << >> /\ hlast[f].p = 1 =>
         /\ hlast[f].c = << 0, 0 >>
         /\ hlast[f].w = Len(hwords[f]) - 1

\* Pass 5 has run to its end.
C29_Witness ==
  /\ hpasses = << 1, 2, 3, 4, 5 >>
  /\ hlast["small"].p = 5
  /\ Len(hwords["small"]) = 32
  /\ Len(hwords["unrolled"]) = 32
  /\ hwords["small"][1] = 27

\* C30: at every step of every pass the small-footprint build and the
\* unrolled build apply STEP to the same register with the same word index
\* and the same constant, and the registers and the result in val are the
\* same in both.
C30_FormsEquivalent ==
  /\ hlast # << >> => hlast["small"] = hlast["unrolled"]
  /\ hs # << >> => hs["small"] = hs["unrolled"]
  /\ hval # << >> => hval["small"] = hval["unrolled"]
  /\ hpc = "pass" =>
       LET p == CORE(hn)[hk]
       IN  /\ SmallStep(p, hj) = UnrolledStep(p, hj)
           /\ p > 1 => /\ MP(p)[hj + 1] = UnrolledStep(p, hj).w
                       /\ RK(p)[hj + 1] = UnrolledStep(p, hj).c

\* sph_haval_5_comp has returned in both builds.
C30_Witness ==
  /\ hpc = "done"
  /\ hn = 5
  /\ hval["small"] = hval["unrolled"]
  /\ hval["small"] # hval0
  /\ hlast["small"].c = RK5[32]

====
